---- MODULE Spec2Model ----
(***************************************************************************)
(* Device session protocol of the Abbott FreeStyle Neo example driver:     *)
(* the native USB module (ExpoUsbConectedModule.kt), the driver            *)
(* (AbbottFreeStyleNeoMobile), its protocol (FreeStyleProtocolMobile) and  *)
(* the two orchestration flows of the example app (handleUSBConnection,    *)
(* executeDeviceCommunication).                                            *)
(***************************************************************************)
EXTENDS Integers, Sequences, FiniteSets, TLC

(***************************************************************************)
(* Bounds of the model.                                                    *)
(***************************************************************************)
\* openDevice calls that may succeed in one behaviour (caps connection ids)
MaxOpens == 3
\* longest byte sequence the device answers to a read in the model
MaxReadLen == 2
\* longest batch of lines handed to processRecords
MaxBatch == 2
\* most reads of one sendTextCommand that bring bytes
MaxChunks == 2
\* most entries of a claimed-interface list when native calls come in any order
MaxClaims == 2
\* most permission requests of one kind that wait for the user's answer
MaxRequests == 2

(***************************************************************************)
(* Program constants.                                                      *)
(***************************************************************************)
FRAME_SIZE == 64
\* faulty variant of maxAttempts: one attempt too many
maxAttemptsOffByOne == 3 + 1
maxAttempts == 3
TEXT_OPCODE == 33
\* faulty variant of INIT_SEQUENCE: the first two commands swapped
INIT_SEQUENCE_swapped == <<5, 4, 21, 1, 0>>
INIT_SEQUENCE == <<4, 5, 21, 1, 0>>
WAKE_UP == 0
\* '$result?' as ASCII codes
RESULTS_COMMAND == <<36, 114, 101, 115, 117, 108, 116, 63>>
\* the test command of verifyConnection
TEST_COMMAND == <<4, 0>>

Null == "null"
Dev == "dev"
NoList == "none"
HID_IFACE == 0

VARIABLES
  \* ---- environment
  mode,               \* what is exercised: "api", "handleUSB", "execComm",
                      \* "records", "text", "frames", "send", "native", "pipe",
                      \* "permission"
  isHID,              \* the device has a HID-class interface (isHIDDevice)
  mayReject,          \* promises of the injected usbModule may reject
  callbackMayThrow,   \* the progressCallback handed to the driver may throw
  \* ---- native module
  activeConnections,  \* activeConnections[deviceName]: 0 = no entry, else a connection id
  claimedInterfaces,  \* claimedInterfaces[deviceName]: NoList = no entry, else a list
  liveConns,          \* UsbDeviceConnection objects opened and not closed
  opens,              \* connections opened so far
  \* ---- driver and protocol objects
  deviceInfo,         \* AbbottFreeStyleNeoMobile.deviceInfo
  isConnected,        \* AbbottFreeStyleNeoMobile.isConnected
  deviceName,         \* FreeStyleProtocolMobile.deviceName
  isInitialized,      \* FreeStyleProtocolMobile.isInitialized
  \* ---- the driver call in progress
  op,                 \* "none", "connect", "getDeviceInfo", "fetchData", "disconnect"
  dpc,                \* position inside the call; "idle" before the first, "done" after
  ret,                \* how the last call ended: "none", "ok", "throw"
  i,                  \* executeInitSequence loop index (0-based)
  attempts,           \* sendInitCommand attempts
  bytesWritten,       \* sendInitCommand bytesWritten
  records,            \* rawRecords returned by the last fetchData (a count), -1 if none
  \* ---- observations of the run
  okOps,              \* init opcodes written successfully in this initCommunication
  triedOps,           \* init opcodes of which a write was attempted in this initCommunication
  exhausted,          \* opcode whose 3 attempts all failed in this connect, -1 if none
  initWrites,         \* writeData calls of this initCommunication
  initReads,          \* readData calls of this initCommunication
  lastData,           \* argument of the last writeData call
  lastWire,           \* bytes the last writeData handed to bulkTransfer (<<>> if none)
  opIO,               \* the call in progress invoked writeData/readData/sendTextCommand
  readyAtCall,        \* isConnected when the call in progress started
  textCmds,           \* text commands sent by the getDeviceInfo in progress
  textFailed,         \* an earlier text command of this getDeviceInfo failed
  lateCmd,            \* a text command was sent after an earlier one failed
  connectOpened,      \* openDevice succeeded inside the connect in progress
  sessionCloses,      \* closeDevice calls of disconnect() since the last connect() call
  disconnected,       \* a disconnect() returned since the last connect() call
  redundantClose,     \* disconnect() called closeDevice although already disconnected
  lastReadEmpty,      \* the read of the last fetchData returned no bytes
  wakeUp,             \* outcomes of sendWakeUpCommand's write and read in this connect
  deviceDate,         \* getDeviceDateTime: the parsed answer to $date?, until $time? is answered
  timeSync,           \* the syncResult of the getDeviceInfo in progress, NoSync if none
  cbThrewAt,          \* step at which progressCallback threw in the call in progress, 0 if it did not
  \* ---- orchestration flow
  fpc,                \* position inside the flow
  connectedDevicePath,\* React state of App
  capturedPath,       \* connectedDevicePath as captured by the running handler
  flowOpened,         \* the flow's own openDevice succeeded
  closeCalls,         \* closeDevice calls made by the flow and its driver
  closeEff,           \* closeDevice calls of the flow that closed a connection
  \* ---- processRecords
  batch,              \* the records argument: a sequence of lines
  processedRecords,   \* the array processRecords builds
  ridx,               \* lines consumed by the loop
  rpc,                \* "idle", "loop", "returned"
  \* ---- text responses
  serialResponse,     \* getSerialNumber: the response of $serlnum? ("" before it arrives)
  textInput,          \* the response handed to the parsers
  driverParsed,       \* result of the driver's parseTextResponse
  appParsed,          \* result of the app's parseTextResponse
  checksumWarned,     \* the app's parser logged a checksum mismatch
  tpc,                \* "idle", "app" (the driver's parser ran), "done"
  \* ---- frame builders
  frameOpcode,        \* createHIDFrame: command
  framePayload,       \* createHIDFrame: data (<<>> for null)
  frameCommand,       \* createTextCommandFrame / sendHIDTextCommand: command
  hidFrame,           \* what createHIDFrame returned (<<>> before)
  textFrame,          \* what createTextCommandFrame returned (<<>> before)
  appFrame,           \* the hidFrame sendHIDTextCommand built (<<>> before)
  bpc,                \* "idle", "hid", "text", "done"
  \* ---- one call of the native sendTextCommand
  sendEnv,            \* which precondition of the call is missing, "ready" if none
  sendCommand,        \* the command argument
  sendBytes,          \* commandBytes, <<>> before it is built
  sendWritten,        \* <<bytesWritten>> once the write has returned
  sendResponse,       \* the StringBuilder response
  sendAttempts,       \* attempts
  sendReads,          \* bulkTransfer calls on the IN endpoint
  sendChunks,         \* reads that brought bytes
  finalResponse,      \* what the call returned
  spc,                \* "idle", "start", "read", "done"
  \* ---- native calls made in any order
  nativeReturn,       \* the last native call and what it returned
  \* ---- promises of the usbModule
  inFlight,           \* transport calls handed to the native module and not yet finished
  promise,            \* the promise the driver awaits: "none", "pending", or how it settled
  \* ---- USB permission
  hasPermission,      \* usbManager.hasPermission(device)
  permissionRequestedDevices, \* UsbDeviceViewModel.permissionRequestedDevices
  autoRequestPermissions,     \* UsbDeviceViewModel._autoRequestPermissions
  unanswered,         \* requests of the view model the user has not answered
  moduleUnanswered,   \* requests of the module's requestPermission not answered
  targetHasPermission,\* targetDevice.hasPermission, as the app's last scan saw it
  permissionGranted,  \* what requestPermission resolved to in the flow, "none" before
  hpc                 \* handleUSBConnection: "idle", "permission", "open", "end"

envVars    == <<mode, isHID, mayReject, callbackMayThrow>>
nativeVars == <<activeConnections, claimedInterfaces, liveConns, opens>>
driverVars == <<deviceInfo, isConnected, deviceName, isInitialized>>
callVars   == <<op, dpc, ret, i, attempts, bytesWritten, records>>
initObs    == <<okOps, triedOps, exhausted, initWrites, initReads>>
wireObs    == <<lastData, lastWire>>
callObs    == <<opIO, readyAtCall, textCmds, textFailed, lateCmd, connectOpened,
                sessionCloses, disconnected, redundantClose, lastReadEmpty, wakeUp,
                deviceDate, timeSync, cbThrewAt>>
flowVars   == <<fpc, connectedDevicePath, capturedPath, flowOpened, closeCalls, closeEff>>
recordVars == <<batch, processedRecords, ridx, rpc>>
textVars   == <<serialResponse, textInput, driverParsed, appParsed, checksumWarned, tpc>>
frameVars  == <<frameOpcode, framePayload, frameCommand, hidFrame, textFrame, appFrame, bpc>>
sendVars   == <<sendEnv, sendCommand, sendBytes, sendWritten, sendResponse,
                sendAttempts, sendReads, sendChunks, finalResponse, spc>>
permVars   == <<hasPermission, permissionRequestedDevices, autoRequestPermissions,
                unanswered, moduleUnanswered, targetHasPermission, permissionGranted, hpc>>
vars == <<envVars, nativeVars, driverVars, callVars, initObs, wireObs, callObs, flowVars,
          recordVars, textVars, frameVars, sendVars, nativeReturn, inFlight, promise, permVars>>

Min(a, b) == IF a < b THEN a ELSE b


(***************************************************************************)
(* Frame codec of the protocol class.                                      *)
(***************************************************************************)
\* faulty variant of createHIDFrame: the data is copied from offset 1
createHIDFrame_offsetOne(command, data) ==
  [k \in 1..FRAME_SIZE |->
     IF k = 1 THEN command
     ELSE IF Len(data) > 0 /\ k - 1 >= 1 /\ k - 1 <= Min(Len(data), FRAME_SIZE - 2)
          THEN data[k - 1]
     ELSE 0]

\* createHIDFrame(command, data): 64 bytes, byte0 = command, byte1 = data.length
\* and the data from offset 2 when data is given, zero elsewhere
createHIDFrame(command, data) ==
  [k \in 1..FRAME_SIZE |->
     IF k = 1 THEN command
     ELSE IF Len(data) > 0 /\ k = 2 THEN Len(data)
     ELSE IF Len(data) > 0 /\ k - 2 >= 1 /\ k - 2 <= Min(Len(data), FRAME_SIZE - 2)
          THEN data[k - 2]
     ELSE 0]

\* createTextCommandFrame(command): opcode 0x21, byte1 = command length
createTextCommandFrame(command) ==
  [k \in 1..FRAME_SIZE |->
     IF k = 1 THEN TEXT_OPCODE
     ELSE IF k = 2 THEN Len(command)
     ELSE IF k - 2 >= 1 /\ k - 2 <= Len(command) /\ k - 2 <= FRAME_SIZE - 2
          THEN command[k - 2]
     ELSE 0]

(***************************************************************************)
(* Native module: writeData / writeHIDReport / writeBulkData.              *)
(***************************************************************************)
\* System.arraycopy(data, 1, hidFrame, 2, data.size - 1) leaves the 64-byte
\* hidFrame when 2 + (data.size - 1) > 64: IndexOutOfBoundsException,
\* caught by writeHIDReport, which then returns -1
HidReportThrows(data) == Len(data) > 1 /\ 2 + (Len(data) - 1) > FRAME_SIZE

\* the hidFrame writeHIDReport builds from the caller's data
HidReport(data) ==
  [k \in 1..FRAME_SIZE |->
     IF Len(data) = 0 THEN 0
     ELSE IF k = 1 THEN data[1]
     ELSE IF Len(data) = 1 THEN 0
     ELSE IF k = 2 THEN Len(data) - 1
     ELSE IF k - 1 <= Len(data) THEN data[k - 1]
     ELSE 0]

alreadyClaimed ==
  /\ claimedInterfaces # NoList
  /\ \E k \in 1..Len(claimedInterfaces) : claimedInterfaces[k] = HID_IFACE

\* writeData gets as far as connection.bulkTransfer
WriteReachesTransfer(data, claimOk) ==
  /\ activeConnections # 0
  /\ isHID => ((alreadyClaimed \/ claimOk) /\ ~HidReportThrows(data))

\* the bytes handed to bulkTransfer
WireOf(data) == IF isHID THEN HidReport(data) ELSE data

\* the value writeData resolves to
writeDataResult(data, xfer, claimOk) ==
  IF WriteReachesTransfer(data, claimOk) /\ xfer = "ok" THEN Len(WireOf(data)) ELSE -1

\* the effect of writeData on the native module and on the wire
writeData(data, claimOk) ==
  /\ lastData' = data
  /\ lastWire' = IF WriteReachesTransfer(data, claimOk) THEN WireOf(data) ELSE <<>>
  /\ claimedInterfaces' =
       IF activeConnections # 0 /\ isHID /\ ~alreadyClaimed /\ claimOk
       THEN Append(claimedInterfaces, HID_IFACE)
       ELSE claimedInterfaces
  /\ UNCHANGED <<activeConnections, liveConns, opens>>

\* a call that never reaches the native side (the promise rejects)
NoNativeEffect == UNCHANGED <<nativeVars, wireObs>>

(***************************************************************************)
(* Native module: openDevice / closeDevice / claimInterface.               *)
(***************************************************************************)
\* openDevice with usbManager.openDevice succeeding: the map entries are
\* overwritten, whatever they held
openDevice ==
  /\ activeConnections' = opens + 1
  /\ claimedInterfaces' = <<>>
  /\ liveConns' = liveConns \cup {opens + 1}
  /\ opens' = opens + 1

\* closeDevice: false when there is no active connection
closeDeviceResult == activeConnections # 0

\* faulty variant of closeDevice: the claimed-interface list stays
closeDevice_keepsClaims ==
  /\ activeConnections' = 0
  /\ claimedInterfaces' = claimedInterfaces
  /\ liveConns' = liveConns \ {activeConnections}
  /\ UNCHANGED opens

closeDevice ==
  /\ activeConnections' = 0
  /\ claimedInterfaces' = IF activeConnections # 0 THEN NoList ELSE claimedInterfaces
  /\ liveConns' = liveConns \ {activeConnections}
  /\ UNCHANGED opens

\* claimInterface(deviceName, 0): false without a connection
claimInterfaceResult(osOk) == activeConnections # 0 /\ osOk

claimInterface(osOk) ==
  /\ claimedInterfaces' =
       IF claimInterfaceResult(osOk) /\ claimedInterfaces # NoList
       THEN Append(claimedInterfaces, HID_IFACE)
       ELSE claimedInterfaces
  /\ UNCHANGED <<activeConnections, liveConns, opens>>

\* readData: an empty list without a connection, else what the transfer gave
ReadBytes ==
  UNION {[1..n -> {10, 32, 55}] : n \in 0..MaxReadLen}

readDataResult(bytes) == IF activeConnections # 0 THEN bytes ELSE <<>>

\* outcomes of a promise of the usbModule
Rejects == IF mayReject THEN {FALSE, TRUE} ELSE {FALSE}

\* if (progressCallback) progressCallback({...}): whether the invocation throws
CallbackThrows == IF callbackMayThrow THEN {FALSE, TRUE} ELSE {FALSE}

Xfers == {"ok", "err"}

(***************************************************************************)
(* Text responses: strings are sequences of character codes.               *)
(***************************************************************************)
SPACE == 32
CR == 13
LF == 10
CRLF == <<CR, LF>>
\* "CKSM:", "CMD ", "OK", "Fail!"
STR_CKSM == <<67, 75, 83, 77, 58>>
STR_CMD == <<67, 77, 68, 32>>
STR_OK == <<79, 75>>
STR_FAIL == <<70, 97, 105, 108, 33>>

\* what String.prototype.trim removes (ASCII)
IsWhitespace(c) == c \in {9, 10, 11, 12, 13, 32}

\* response.trim() === ''
trimIsEmpty(s) == \A k \in 1..Len(s) : IsWhitespace(s[k])

\* the character class [0-9A-F]
IsUpperHex(c) == c \in (48..57) \cup (65..70)

\* the literal lit occurs in s at position at
StartsWith(s, at, lit) ==
  /\ at + Len(lit) - 1 <= Len(s)
  /\ SubSeq(s, at, at + Len(lit) - 1) = lit

\* where ([^\r]*) must stop: the first carriage return, 0 when there is none
FirstCR(s) ==
  IF \E k \in 1..Len(s) : s[k] = CR
  THEN CHOOSE k \in 1..Len(s) : s[k] = CR /\ \A j \in 1..(k - 1) : s[j] # CR
  ELSE 0

\* response.match(/^([^\r]*)\r\nCKSM:([0-9A-F]{8})\r\nCMD (OK|Fail!)\r\n/):
\* the three groups, or NoMatch
NoMatch == <<>>

HEX_DIGITS == 8

RegexMatch(response) ==
  LET p == FirstCR(response)
      h == p + Len(CRLF \o STR_CKSM)
      e == h + HEX_DIGITS
      st == e + Len(CRLF \o STR_CMD)
  IN IF p = 0 THEN NoMatch
     ELSE IF /\ StartsWith(response, p, CRLF \o STR_CKSM)
             /\ e - 1 <= Len(response)
             /\ \A k \in h..(e - 1) : IsUpperHex(response[k])
             /\ StartsWith(response, e, CRLF \o STR_CMD)
          THEN IF StartsWith(response, st, STR_OK \o CRLF)
               THEN <<SubSeq(response, 1, p - 1), SubSeq(response, h, e - 1), STR_OK>>
               ELSE IF StartsWith(response, st, STR_FAIL \o CRLF)
                    THEN <<SubSeq(response, 1, p - 1), SubSeq(response, h, e - 1),
                           STR_FAIL>>
                    ELSE NoMatch
          ELSE NoMatch

\* a parser's result: null, or a string
NullText == <<>>
Text(s) == <<s>>

\* !value for a parser's result: null and "" are falsy
Falsy(r) == r = NullText \/ r = Text(<<>>)

\* parseInt(match[2], 16) on eight digits of [0-9A-F]
HexDigitValue(c) == IF c <= 57 THEN c - 48 ELSE c - 55

RECURSIVE HexValue(_)
HexValue(h) ==
  IF h = <<>> THEN 0
  ELSE 16 * HexValue(SubSeq(h, 1, Len(h) - 1)) + HexDigitValue(h[Len(h)])

\* faulty variant of calculatedChecksum: only the first character counts
calculatedChecksum_firstChar(data) == IF data = <<>> THEN 0 ELSE data[1] % 256

\* data.split('').reduce((sum, char) => sum + (char.charCodeAt(0) & 0xFF), 0)
RECURSIVE calculatedChecksum(_)
calculatedChecksum(data) ==
  IF data = <<>> THEN 0
  ELSE calculatedChecksum(SubSeq(data, 1, Len(data) - 1)) + (data[Len(data)] % 256)

\* faulty variant of parseTextResponse: a checksum mismatch is an error
parseTextResponse_checksumFatal(response) ==
  IF response = <<>> \/ trimIsEmpty(response) THEN NullText
  ELSE LET match == RegexMatch(response) IN
       IF match = NoMatch THEN NullText
       ELSE IF match[3] # STR_OK THEN NullText
            ELSE IF calculatedChecksum(match[1]) # HexValue(match[2]) THEN NullText
                 ELSE Text(match[1])

\* faulty variant of parseTextResponse: the status is not looked at
parseTextResponse_ignoresStatus(response) ==
  IF response = <<>> \/ trimIsEmpty(response) THEN NullText
  ELSE LET match == RegexMatch(response) IN
       IF match = NoMatch THEN NullText ELSE Text(match[1])

\* the driver's parseTextResponse
parseTextResponse(response) ==
  IF response = <<>> \/ trimIsEmpty(response) THEN NullText
  ELSE LET match == RegexMatch(response) IN
       IF match = NoMatch THEN NullText
       ELSE IF match[3] # STR_OK THEN NullText
            ELSE Text(match[1])

\* response.split('\r\n')[0]: the text before the first CR LF, all of it when
\* there is none
FirstSegment(s) ==
  IF \E k \in 1..(Len(s) - 1) : s[k] = CR /\ s[k + 1] = LF
  THEN LET k == CHOOSE n \in 1..(Len(s) - 1) :
                  /\ s[n] = CR /\ s[n + 1] = LF
                  /\ \A j \in 1..(n - 1) : ~(s[j] = CR /\ s[j + 1] = LF)
       IN SubSeq(s, 1, k - 1)
  ELSE s

\* the app's parseTextResponse (App.tsx)
App_parseTextResponse(response) ==
  IF response = <<>> \/ trimIsEmpty(response) THEN NullText
  ELSE LET match == RegexMatch(response) IN
       IF match = NoMatch
       THEN IF ~trimIsEmpty(FirstSegment(response))
            THEN Text(FirstSegment(response))
            ELSE NullText
       ELSE IF match[3] # STR_OK THEN NullText
            ELSE Text(match[1])

\* the app's parseTextResponse reaches console.warn("Checksum inválido ...")
App_checksumWarned(response) ==
  LET match == RegexMatch(response) IN
  /\ ~(response = <<>> \/ trimIsEmpty(response))
  /\ match # NoMatch
  /\ match[3] = STR_OK
  /\ calculatedChecksum(match[1]) # HexValue(match[2])

(***************************************************************************)
(* What the meter may answer.                                              *)
(***************************************************************************)
\* the meter's checksum: the sum of the bytes of data
RECURSIVE AsciiSum(_)
AsciiSum(data) == IF data = <<>> THEN 0 ELSE data[1] + AsciiSum(Tail(data))

\* a sum as the meter prints it: eight upper-case hex digits
HexDigit(d) == IF d < 10 THEN 48 + d ELSE 55 + d

Hex8(n) == [k \in 1..HEX_DIGITS |-> HexDigit((n \div (16 ^ (HEX_DIGITS - k))) % 16)]

\* data CR LF CKSM:checksum CR LF CMD status CR LF
Frame(data, checksum, status) ==
  data \o CRLF \o STR_CKSM \o checksum \o CRLF \o STR_CMD \o status \o CRLF

\* "DATA"
STR_DATA == <<68, 65, 84, 65>>

\* "0000011a": a sum printed in lower case
LowerHex11a == <<48, 48, 48, 48, 48, 49, 49, 97>>

\* inputs of the parsers
Datas == {<<>>, STR_DATA, <<65>>, <<SPACE>>, <<65, LF, 66>>}

Checksums(data) ==
  {Hex8(AsciiSum(data)), Hex8(0), Hex8(68), Hex8(2147483647)}

AllChecksums == UNION {Checksums(d) : d \in Datas}

Framed == {Frame(d, c, s) : d \in Datas, c \in AllChecksums, s \in {STR_OK, STR_FAIL}}

\* answers a text command can get in a device session
TextResponses ==
  { <<>>,
    Frame(STR_DATA, Hex8(AsciiSum(STR_DATA)), STR_OK),
    Frame(STR_DATA, Hex8(0), STR_OK),
    Frame(<<>>, Hex8(0), STR_OK),
    STR_DATA }
  \cup {Frame(d, c, STR_FAIL) : d \in Datas, c \in AllChecksums}

\* sendTextCommand: "" without a connection, else the accumulated response
sendTextCommandResult(resp) == IF activeConnections # 0 THEN resp ELSE <<>>

Unframed ==
  { <<>>, <<SPACE>>, CRLF, STR_DATA, STR_DATA \o CRLF, CRLF \o STR_DATA,
    STR_DATA \o <<CR, 88>>, <<SPACE>> \o CRLF \o STR_DATA,
    Frame(STR_DATA, LowerHex11a, STR_OK),
    Frame(STR_DATA, LowerHex11a, STR_FAIL),
    Frame(STR_DATA, SubSeq(Hex8(0), 1, 7), STR_OK),
    Frame(STR_DATA, Hex8(0), <<111, 107>>),
    STR_CKSM \o Hex8(0) \o CRLF \o STR_CMD \o STR_OK \o CRLF,
    STR_DATA \o CRLF \o STR_CKSM \o Hex8(0) \o CRLF \o STR_CMD \o STR_OK }

TextInputs == Framed \cup Unframed \cup TextResponses

\* no parser call is under way
TextIdle ==
  /\ textInput = <<>>
  /\ driverParsed = NullText
  /\ appParsed = NullText
  /\ checksumWarned = FALSE
  /\ tpc = "idle"

(***************************************************************************)
(* JavaScript helpers of the parsers: parseInt, split, a missing field.    *)
(* Strings are sequences of character codes.                               *)
(***************************************************************************)
COMMA == 44
\* parseInt gives NaN or a number
NaN == <<>>
Num(n) == <<n>>
\* String(undefined), what parseInt and === see for a missing field
Undefined == <<117, 110, 100, 101, 102, 105, 110, 101, 100>>
STR_HI == <<72, 73>>
STR_LO == <<76, 79>>

IsDigit(c) == c >= 48 /\ c <= 57

RECURSIVE LeadingSpaces(_, _)
LeadingSpaces(s, k) ==
  IF k <= Len(s) /\ s[k] = SPACE THEN 1 + LeadingSpaces(s, k + 1) ELSE 0

RECURSIVE LeadingDigits(_, _)
LeadingDigits(s, k) ==
  IF k <= Len(s) /\ IsDigit(s[k]) THEN 1 + LeadingDigits(s, k + 1) ELSE 0

RECURSIVE DecimalValue(_, _, _)
DecimalValue(s, k, n) ==
  IF n = 0 THEN 0 ELSE DecimalValue(s, k, n - 1) * 10 + (s[k + n - 1] - 48)

\* parseInt(string) without radix, for strings of decimal digits, signs,
\* spaces and letters: leading white space, an optional sign, the longest
\* run of digits; NaN when there is no digit
parseInt(s) ==
  LET b == 1 + LeadingSpaces(s, 1)
      signed == b <= Len(s) /\ s[b] \in {43, 45}
      d == IF signed THEN b + 1 ELSE b
      n == LeadingDigits(s, d)
  IN IF n = 0 THEN NaN
     ELSE IF signed /\ s[b] = 45 THEN Num(0 - DecimalValue(s, d, n))
     ELSE Num(DecimalValue(s, d, n))

\* record.split(','): always at least one field
RECURSIVE split(_)
split(s) ==
  IF \A k \in 1..Len(s) : s[k] # COMMA THEN <<s>>
  ELSE LET c == CHOOSE k \in 1..Len(s) :
                  s[k] = COMMA /\ \A j \in 1..(k - 1) : s[j] # COMMA
       IN <<SubSeq(s, 1, c - 1)>> \o split(SubSeq(s, c + 1, Len(s)))

\* fields[k] with JavaScript's 0-based index
Field(fields, k) == IF k + 1 <= Len(fields) THEN fields[k + 1] ELSE Undefined

\* x + 2000 on a parseInt result
Plus2000(x) == IF x = NaN THEN NaN ELSE Num(x[1] + 2000)

\* parseInt(fields[7]) || 0
OrZero(x) == IF x = NaN THEN Num(0) ELSE x

(***************************************************************************)
(* verifyTimeSync and parseDeviceDateTime.  A time is Num(ms), milliseconds *)
(* counted from 1 January 2000 00:00 local time, or NaN (an invalid Date). *)
(***************************************************************************)
\* formatted.split(' '): always at least one piece
RECURSIVE splitSpace(_)
splitSpace(s) ==
  IF \A k \in 1..Len(s) : s[k] # SPACE THEN <<s>>
  ELSE LET c == CHOOSE k \in 1..Len(s) :
                  s[k] = SPACE /\ \A j \in 1..(k - 1) : s[j] # SPACE
       IN <<SubSeq(s, 1, c - 1)>> \o splitSpace(SubSeq(s, c + 1, Len(s)))

IsLeapYear(y) == (y % 4 = 0 /\ y % 100 # 0) \/ y % 400 = 0

\* leap days of the years before y
LeapDaysBefore(y) == ((y - 1) \div 4) - ((y - 1) \div 100) + ((y - 1) \div 400)

\* days from 1 January 2000 to 1 January of y
DaysBeforeYear(y) == 365 * (y - 2000) + LeapDaysBefore(y) - LeapDaysBefore(2000)

\* days from 1 January to the first of month m (0-based) in year y
DaysBeforeMonth(y, m) ==
  <<0, 31, 59, 90, 120, 151, 181, 212, 243, 273, 304, 334>>[m + 1]
    + (IF m >= 2 /\ IsLeapYear(y) THEN 1 ELSE 0)

MS_PER_MINUTE == 60000

\* new Date(year, month, day, hour, minute) on numbers: a year 0..99 means
\* 1900 + year, a month outside 0..11 carries into the year, day, hour and
\* minute carry by plain addition
DateOf(year, month, day, hour, minute) ==
  LET fullYear == IF year >= 0 /\ year <= 99 THEN 1900 + year ELSE year
      y == fullYear + (month \div 12)
      m == month % 12
      days == DaysBeforeYear(y) + DaysBeforeMonth(y, m) + (day - 1)
  IN ((days * 24 + hour) * 60 + minute) * MS_PER_MINUTE

\* parseDeviceDateTime(deviceDateTime): "MM,DD,YY HH,mm"; a missing second
\* piece makes timeStr.split throw and the catch return new Date(), the
\* present; a piece that is no number makes the Date invalid
parseDeviceDateTime(formatted, now) ==
  LET pieces == splitSpace(formatted) IN
  IF Len(pieces) < 2 THEN Num(now)
  ELSE LET dateFields == split(pieces[1])
           timeFields == split(pieces[2])
           month == parseInt(Field(dateFields, 0))
           day == parseInt(Field(dateFields, 1))
           year == parseInt(Field(dateFields, 2))
           hour == parseInt(Field(timeFields, 0))
           minute == parseInt(Field(timeFields, 1))
       IN IF NaN \in {month, day, year, hour, minute} THEN NaN
          ELSE Num(DateOf(2000 + year[1], month[1] - 1, day[1], hour[1], minute[1]))

\* Math.abs(currentTime - deviceTime), in milliseconds; NaN for an invalid
\* deviceTime
timeDifference(now, deviceTime) ==
  IF deviceTime = NaN THEN NaN
  ELSE Num(IF now >= deviceTime[1] THEN now - deviceTime[1] ELSE deviceTime[1] - now)

SYNC_MINUTES == 5

\* faulty variant of needsSync: five minutes are already too many
needsSync_atFive(timeDiff) ==
  timeDiff # NaN /\ timeDiff[1] >= SYNC_MINUTES * MS_PER_MINUTE

\* timeDiff > 5, timeDiff being the difference in minutes; NaN > 5 is false
needsSync(timeDiff) ==
  timeDiff # NaN /\ timeDiff[1] > SYNC_MINUTES * MS_PER_MINUTE

\* no syncResult
NoSync == [kind |-> "none"]

\* verifyTimeSync(deviceDateTime): the syncResult it returns
verifyTimeSync(formatted, now) ==
  LET deviceTime == parseDeviceDateTime(formatted, now)
      timeDiff == timeDifference(now, deviceTime)
  IN [kind |-> "syncResult", deviceTime |-> deviceTime, currentTime |-> now,
      timeDifference |-> timeDiff, needsSync |-> needsSync(timeDiff)]

\* "1,1,00" and "0,10": ten past midnight on 1 January 2000
STR_JAN1 == <<49, 44, 49, 44, 48, 48>>
STR_TEN_PAST == <<48, 44, 49, 48>>

\* answers to $date? and $time? that carry a date and a time of day
ClockResponses ==
  { Frame(STR_JAN1, Hex8(AsciiSum(STR_JAN1)), STR_OK),
    Frame(STR_TEN_PAST, Hex8(AsciiSum(STR_TEN_PAST)), STR_OK) }

\* the host clock when verifyTimeSync reads it: the device's minute, five
\* minutes and five minutes and a millisecond to either side of it
DEVICE_MS == 10 * MS_PER_MINUTE
HostTimes ==
  { DEVICE_MS, DEVICE_MS + SYNC_MINUTES * MS_PER_MINUTE,
    DEVICE_MS + SYNC_MINUTES * MS_PER_MINUTE + 1,
    DEVICE_MS - SYNC_MINUTES * MS_PER_MINUTE,
    DEVICE_MS - SYNC_MINUTES * MS_PER_MINUTE - 1 }

(***************************************************************************)
(* Frame builders: createHIDFrame, createTextCommandFrame of the protocol  *)
(* class and the frame of sendHIDTextCommand (App.tsx).                    *)
(***************************************************************************)
\* sendHIDTextCommand: [0x21, commandBytes.length, ...commandBytes] of the
\* command with "\r\n" appended, then zeros pushed while shorter than 64
App_hidFrame(command) ==
  LET commandBytes == command \o CRLF
      unpadded == <<TEXT_OPCODE, Len(commandBytes)>> \o commandBytes
  IN IF Len(unpadded) < FRAME_SIZE
     THEN unpadded \o [k \in 1..(FRAME_SIZE - Len(unpadded)) |-> 0]
     ELSE unpadded

\* "$serlnum?", "$date?"
STR_SERLNUM == <<36, 115, 101, 114, 108, 110, 117, 109, 63>>
STR_DATE == <<36, 100, 97, 116, 101, 63>>

\* inputs of the builders
Opcodes == {0, 4, 33, 96, 255}

PayloadLens == {0, 1, 2, FRAME_SIZE - 3, FRAME_SIZE - 2, FRAME_SIZE - 1, FRAME_SIZE}

Payloads == {[k \in 1..n |-> ((k * 37 + s) % 255) + 1] : n \in PayloadLens, s \in {0, 100}}

Commands ==
  { <<>>, STR_SERLNUM, STR_DATE \o CRLF,
    [k \in 1..(FRAME_SIZE - 4) |-> 65], [k \in 1..(FRAME_SIZE - 2) |-> 65],
    [k \in 1..(FRAME_SIZE - 1) |-> 65] }

\* no builder has run
FramesIdle ==
  /\ frameOpcode = 0
  /\ framePayload = <<>>
  /\ frameCommand = <<>>
  /\ hidFrame = <<>>
  /\ textFrame = <<>>
  /\ appFrame = <<>>
  /\ bpc = "idle"

(***************************************************************************)
(* The native sendTextCommand: one write, then the read loop.              *)
(***************************************************************************)
\* val maxAttempts = 50
Native_maxAttempts == 50

\* command.endsWith("\r\n")
endsWithCRLF(command) ==
  Len(command) >= 2 /\ SubSeq(command, Len(command) - 1, Len(command)) = CRLF

\* faulty variant of fullCommand: the terminator is always appended
fullCommand_always(command) == command \o CRLF

\* val fullCommand = if (!command.endsWith("\r\n")) "$command\r\n" else command
fullCommand(command) == IF ~endsWithCRLF(command) THEN command \o CRLF ELSE command

\* toByteArray(Charsets.US_ASCII): a character outside ASCII becomes '?'
AsciiEncode(text) == [k \in 1..Len(text) |-> IF text[k] < 128 THEN text[k] ELSE 63]

\* String(buffer, 0, bytesRead, Charsets.US_ASCII): a byte outside ASCII
\* becomes U+FFFD
AsciiDecode(bytes) == [k \in 1..Len(bytes) |-> IF bytes[k] < 128 THEN bytes[k] ELSE 65533]

\* text.contains(lit)
Contains(text, lit) == \E at \in 1..Len(text) : StartsWith(text, at, lit)

\* response.contains("CMD OK") || response.contains("CMD Fail!")
HasMarker(text) ==
  Contains(text, STR_CMD \o STR_OK) \/ Contains(text, STR_CMD \o STR_FAIL)

\* "$time?"
STR_TIME == <<36, 116, 105, 109, 101, 63>>

\* commands handed to sendTextCommand; the last holds a character outside
\* ASCII
TextCommands ==
  { <<>>, CRLF, STR_SERLNUM, STR_DATE, STR_TIME \o CRLF, STR_DATE \o <<LF>>,
    STR_DATE \o <<CR>>, STR_DATE \o CRLF \o CRLF, <<36, 233, 63>> }

\* what one read of the IN endpoint can bring: pieces of an answer, a whole
\* answer, a byte outside ASCII
Chunks ==
  { STR_DATA \o CRLF, <<67, 77, 68, 32, 79>>, <<75, 13, 10>>,
    STR_CMD \o STR_FAIL \o CRLF,
    Frame(STR_DATA, Hex8(AsciiSum(STR_DATA)), STR_OK), <<200>> }

\* the preconditions of the call: no entry in activeConnections, no such
\* device, no OUT endpoint, no IN endpoint, or all present
SendEnvs == {"noConnection", "noDevice", "noOut", "noIn", "ready"}

\* no sendTextCommand is under way
SendIdle ==
  /\ sendEnv = "ready"
  /\ sendCommand = <<>>
  /\ sendBytes = <<>>
  /\ sendWritten = <<>>
  /\ sendResponse = <<>>
  /\ sendAttempts = 0
  /\ sendReads = 0
  /\ sendChunks = 0
  /\ finalResponse = <<>>
  /\ spc = "idle"

(***************************************************************************)
(* Native module: releaseInterface, OnDestroy and the record of a call.    *)
(***************************************************************************)
NoReturn == [call |-> "none"]

NativeIdle == nativeReturn = NoReturn

\* no transport call has been issued
PipeIdle == inFlight = <<>> /\ promise = "none"

\* position of the first occurrence of usbInterface in the list, 0 if absent
RECURSIVE indexOf(_, _, _)
indexOf(list, usbInterface, k) ==
  IF k > Len(list) THEN 0
  ELSE IF list[k] = usbInterface THEN k
  ELSE indexOf(list, usbInterface, k + 1)

\* MutableList.remove(element): the first occurrence goes, if there is one
remove(list, usbInterface) ==
  LET k == indexOf(list, usbInterface, 1)
  IN  IF k = 0 THEN list
      ELSE SubSeq(list, 1, k - 1) \o SubSeq(list, k + 1, Len(list))

\* releaseInterface(deviceName, 0): false without a connection
releaseInterfaceResult(osOk) == activeConnections # 0 /\ osOk

releaseInterface(osOk) ==
  /\ claimedInterfaces' =
       IF releaseInterfaceResult(osOk) /\ claimedInterfaces # NoList
       THEN remove(claimedInterfaces, HID_IFACE)
       ELSE claimedInterfaces
  /\ UNCHANGED <<activeConnections, liveConns, opens>>

\* OnDestroy: the connections of the map are closed and both maps cleared
OnDestroy ==
  /\ activeConnections' = 0
  /\ claimedInterfaces' = NoList
  /\ liveConns' = liveConns \ {activeConnections}
  /\ UNCHANGED opens

\* the data handed to writeData when native calls come in any order:
\* one byte, the test command, and a full frame
NativeDatas == {<<0>>, TEST_COMMAND, createHIDFrame(4, <<>>)}

\* the view model as constructed, no permission flow started; the device
\* holds the permission the driver's calls need
ViewModelFresh ==
  /\ permissionRequestedDevices = {}
  /\ autoRequestPermissions = TRUE
  /\ unanswered = 0
  /\ moduleUnanswered = 0
  /\ targetHasPermission = FALSE
  /\ permissionGranted = "none"
  /\ hpc = "idle"

PermissionIdle == hasPermission = TRUE /\ ViewModelFresh

(***************************************************************************)
(* Initial state: freshly constructed driver, protocol and native module.  *)
(***************************************************************************)
Modes == {"api", "handleUSB", "execComm"}

\* no processRecords call has been made
RecordsIdle ==
  /\ batch = <<>>
  /\ processedRecords = <<>>
  /\ ridx = 0
  /\ rpc = "idle"

\* native module, protocol, driver (but for deviceInfo) and flow as constructed
SessionFresh ==
  /\ activeConnections = 0
  /\ claimedInterfaces = NoList
  /\ liveConns = {}
  /\ opens = 0
  /\ isConnected = FALSE
  /\ deviceName = Null
  /\ isInitialized = FALSE
  /\ op = "none"
  /\ dpc = "idle"
  /\ ret = "none"
  /\ i = 0
  /\ attempts = 0
  /\ bytesWritten = -1
  /\ records = -1
  /\ okOps = <<>>
  /\ triedOps = <<>>
  /\ exhausted = -1
  /\ initWrites = 0
  /\ initReads = 0
  /\ lastData = <<>>
  /\ lastWire = <<>>
  /\ opIO = FALSE
  /\ readyAtCall = FALSE
  /\ textCmds = <<>>
  /\ textFailed = FALSE
  /\ lateCmd = FALSE
  /\ connectOpened = FALSE
  /\ sessionCloses = 0
  /\ disconnected = FALSE
  /\ redundantClose = FALSE
  /\ lastReadEmpty = FALSE
  /\ fpc = "idle"
  /\ connectedDevicePath = Null
  /\ capturedPath = Null
  /\ flowOpened = FALSE
  /\ closeCalls = 0
  /\ closeEff = 0
  /\ serialResponse = <<>>
  /\ wakeUp = <<>>
  /\ deviceDate = NullText
  /\ timeSync = NoSync
  /\ cbThrewAt = 0

Init ==
  /\ mode \in Modes
  /\ isHID \in BOOLEAN
  /\ mayReject \in BOOLEAN
  /\ callbackMayThrow = FALSE
  /\ deviceInfo = Null
  /\ SessionFresh
  /\ RecordsIdle
  /\ TextIdle
  /\ FramesIdle
  /\ SendIdle
  /\ NativeIdle
  /\ PipeIdle
  /\ PermissionIdle

(***************************************************************************)
(* Entry of the driver's public methods.  `fresh` is TRUE when the caller  *)
(* has just constructed the driver (createAbbottDriver).                   *)
(***************************************************************************)
NoCall == dpc \in {"idle", "done"}

\* a call starts: its locals and the observations of the call start afresh
StartCall(name, pc) ==
  /\ op' = name
  /\ dpc' = pc
  /\ ret' = "none"
  /\ i' = 0
  /\ attempts' = 0
  /\ bytesWritten' = -1
  /\ records' = -1
  /\ okOps' = <<>>
  /\ triedOps' = <<>>
  /\ exhausted' = -1
  /\ initWrites' = 0
  /\ initReads' = 0
  /\ lastData' = <<>>
  /\ lastWire' = <<>>
  /\ opIO' = FALSE
  /\ textCmds' = <<>>
  /\ textFailed' = FALSE
  /\ lateCmd' = FALSE
  /\ connectOpened' = FALSE
  /\ lastReadEmpty' = FALSE
  /\ serialResponse' = <<>>
  /\ wakeUp' = <<>>
  /\ deviceDate' = NullText
  /\ timeSync' = NoSync
  /\ cbThrewAt' = 0

\* connect(deviceInfo, progressCallback): this.deviceInfo = deviceInfo
BeginConnect(fresh) ==
  /\ StartCall("connect", "c_open")
  /\ deviceInfo' = Dev
  /\ isConnected' = IF fresh THEN FALSE ELSE isConnected
  /\ isInitialized' = IF fresh THEN FALSE ELSE isInitialized
  /\ deviceName' = IF fresh THEN Null ELSE deviceName
  /\ readyAtCall' = IF fresh THEN FALSE ELSE isConnected
  /\ sessionCloses' = 0
  /\ disconnected' = FALSE
  /\ redundantClose' = FALSE

BeginGetDeviceInfo ==
  /\ StartCall("getDeviceInfo", "g_serial")
  /\ readyAtCall' = isConnected

BeginFetchData ==
  /\ StartCall("fetchData", "f_write")
  /\ readyAtCall' = isConnected

BeginDisconnect ==
  /\ StartCall("disconnect", "d_close")
  /\ readyAtCall' = isConnected

(***************************************************************************)
(* connect: connectToDevice (openDevice, claimInterface).                  *)
(***************************************************************************)
\* the step-1 callback, then connectToDevice's openDevice
ConnectOpen ==
  /\ op = "connect" /\ dpc = "c_open"
  /\ opens < MaxOpens
  /\ \E threw \in CallbackThrows, rej \in Rejects, osOk \in BOOLEAN :
       LET ok == ~threw /\ ~rej /\ osOk IN
       /\ IF ok THEN openDevice ELSE UNCHANGED nativeVars
       /\ cbThrewAt' = IF threw THEN 1 ELSE cbThrewAt
       /\ connectOpened' = ok
       /\ dpc' = IF ok THEN "c_claim" ELSE "done"
       /\ ret' = IF ok THEN ret ELSE "throw"
       /\ isConnected' = IF ok THEN isConnected ELSE FALSE
  /\ UNCHANGED <<mode, isHID, mayReject, callbackMayThrow, deviceInfo, deviceName,
               isInitialized, op, i, attempts, bytesWritten, records, okOps, triedOps,
               exhausted, initWrites, initReads, lastData, lastWire, opIO, readyAtCall,
               textCmds, textFailed, lateCmd, sessionCloses, disconnected, redundantClose,
               lastReadEmpty, fpc, connectedDevicePath, capturedPath, flowOpened, closeCalls,
               closeEff, batch, processedRecords, ridx, rpc, serialResponse, wakeUp,
               deviceDate, timeSync, textInput, driverParsed, appParsed, checksumWarned, tpc,
               frameOpcode, framePayload, frameCommand, hidFrame, textFrame, appFrame, bpc,
               sendEnv, sendCommand, sendBytes, sendWritten, sendResponse, sendAttempts,
               sendReads, sendChunks, finalResponse, spc, nativeReturn, inFlight, promise,
               hasPermission, permissionRequestedDevices, autoRequestPermissions, unanswered,
               moduleUnanswered, targetHasPermission, permissionGranted, hpc>>

\* faulty variant of ConnectClaim: connectToDevice ignores what
\* claimInterface resolved to
ConnectClaim_goesOn ==
  /\ op = "connect" /\ dpc = "c_claim"
  /\ \E threw \in CallbackThrows, rej \in Rejects, osOk \in BOOLEAN :
       LET ok == ~rej /\ ~threw
       IN
       /\ IF rej THEN UNCHANGED nativeVars ELSE claimInterface(osOk)
       /\ cbThrewAt' = IF ~rej /\ threw THEN 2 ELSE cbThrewAt
       /\ dpc' = IF ok THEN "i_wake_w" ELSE "done"
       /\ ret' = IF ok THEN ret ELSE "throw"
       /\ isConnected' = IF ok THEN isConnected ELSE FALSE
       /\ deviceName' = IF ok THEN Dev ELSE deviceName
  /\ UNCHANGED <<mode, isHID, mayReject, callbackMayThrow, deviceInfo, isInitialized, op, i,
               attempts, bytesWritten, records, okOps, triedOps, exhausted, initWrites,
               initReads, lastData, lastWire, opIO, readyAtCall, textCmds, textFailed,
               lateCmd, connectOpened, sessionCloses, disconnected, redundantClose,
               lastReadEmpty, fpc, connectedDevicePath, capturedPath, flowOpened, closeCalls,
               closeEff, batch, processedRecords, ridx, rpc, serialResponse, wakeUp,
               deviceDate, timeSync, textInput, driverParsed, appParsed, checksumWarned, tpc,
               frameOpcode, framePayload, frameCommand, hidFrame, textFrame, appFrame, bpc,
               sendEnv, sendCommand, sendBytes, sendWritten, sendResponse, sendAttempts,
               sendReads, sendChunks, finalResponse, spc, nativeReturn, inFlight, promise,
               hasPermission, permissionRequestedDevices, autoRequestPermissions, unanswered,
               moduleUnanswered, targetHasPermission, permissionGranted, hpc>>

\* claimInterface(deviceName, 0); on success connect invokes the step-2
\* callback and goes on to protocol.initCommunication, which stores the
\* device name
ConnectClaim ==
  /\ op = "connect" /\ dpc = "c_claim"
  /\ \E threw \in CallbackThrows, rej \in Rejects, osOk \in BOOLEAN :
       LET claimed == ~rej /\ claimInterfaceResult(osOk)
           ok == claimed /\ ~threw
       IN
       /\ IF rej THEN UNCHANGED nativeVars ELSE claimInterface(osOk)
       /\ cbThrewAt' = IF claimed /\ threw THEN 2 ELSE cbThrewAt
       /\ dpc' = IF ok THEN "i_wake_w" ELSE "done"
       /\ ret' = IF ok THEN ret ELSE "throw"
       /\ isConnected' = IF ok THEN isConnected ELSE FALSE
       /\ deviceName' = IF ok THEN Dev ELSE deviceName
  /\ UNCHANGED <<mode, isHID, mayReject, callbackMayThrow, deviceInfo, isInitialized, op, i,
               attempts, bytesWritten, records, okOps, triedOps, exhausted, initWrites,
               initReads, lastData, lastWire, opIO, readyAtCall, textCmds, textFailed,
               lateCmd, connectOpened, sessionCloses, disconnected, redundantClose,
               lastReadEmpty, fpc, connectedDevicePath, capturedPath, flowOpened, closeCalls,
               closeEff, batch, processedRecords, ridx, rpc, serialResponse, wakeUp,
               deviceDate, timeSync, textInput, driverParsed, appParsed, checksumWarned, tpc,
               frameOpcode, framePayload, frameCommand, hidFrame, textFrame, appFrame, bpc,
               sendEnv, sendCommand, sendBytes, sendWritten, sendResponse, sendAttempts,
               sendReads, sendChunks, finalResponse, spc, nativeReturn, inFlight, promise,
               hasPermission, permissionRequestedDevices, autoRequestPermissions, unanswered,
               moduleUnanswered, targetHasPermission, permissionGranted, hpc>>

(***************************************************************************)
(* protocol.initCommunication: sendWakeUpCommand, then the init sequence.  *)
(***************************************************************************)
\* faulty variant of WakeUpWrite: a negative count or a rejection fails the
\* handshake
WakeUpWrite_fatal ==
  /\ op = "connect" /\ dpc = "i_wake_w"
  /\ \E rej \in Rejects, xfer \in Xfers, claimOk \in BOOLEAN :
       LET frame == createHIDFrame(WAKE_UP, <<>>)
           r == writeDataResult(frame, xfer, claimOk)
           failed == rej \/ r < 0
       IN
       /\ IF rej THEN NoNativeEffect ELSE writeData(frame, claimOk)
       /\ dpc' = IF failed THEN "done" ELSE "i_wake_r"
       /\ ret' = IF failed THEN "throw" ELSE ret
       /\ isConnected' = IF failed THEN FALSE ELSE isConnected
       /\ wakeUp' = <<IF rej THEN "throw" ELSE IF r < 0 THEN "neg" ELSE "ok">>
  /\ initWrites' = initWrites + 1
  /\ opIO' = TRUE
  /\ UNCHANGED <<mode, isHID, mayReject, callbackMayThrow, deviceInfo, deviceName,
               isInitialized, op, i, attempts, bytesWritten, records, okOps, triedOps,
               exhausted, initReads, readyAtCall, textCmds, textFailed, lateCmd,
               connectOpened, sessionCloses, disconnected, redundantClose, lastReadEmpty, fpc,
               connectedDevicePath, capturedPath, flowOpened, closeCalls, closeEff, batch,
               processedRecords, ridx, rpc, serialResponse, deviceDate, timeSync, cbThrewAt,
               textInput, driverParsed, appParsed, checksumWarned, tpc, frameOpcode,
               framePayload, frameCommand, hidFrame, textFrame, appFrame, bpc, sendEnv,
               sendCommand, sendBytes, sendWritten, sendResponse, sendAttempts, sendReads,
               sendChunks, finalResponse, spc, nativeReturn, inFlight, promise, hasPermission,
               permissionRequestedDevices, autoRequestPermissions, unanswered,
               moduleUnanswered, targetHasPermission, permissionGranted, hpc>>

\* wake-up write; a negative count is only logged; a rejected promise lands in
\* sendWakeUpCommand's outer catch, which skips the wake-up read
WakeUpWrite ==
  /\ op = "connect" /\ dpc = "i_wake_w"
  /\ \E rej \in Rejects, xfer \in Xfers, claimOk \in BOOLEAN :
       LET frame == createHIDFrame(WAKE_UP, <<>>)
           r == writeDataResult(frame, xfer, claimOk)
       IN
       /\ IF rej THEN NoNativeEffect ELSE writeData(frame, claimOk)
       /\ dpc' = IF rej THEN "i_cmd_w" ELSE "i_wake_r"
       /\ wakeUp' = <<IF rej THEN "throw" ELSE IF r < 0 THEN "neg" ELSE "ok">>
  /\ initWrites' = initWrites + 1
  /\ opIO' = TRUE
  /\ UNCHANGED <<mode, isHID, mayReject, callbackMayThrow, deviceInfo, isConnected, deviceName,
               isInitialized, op, ret, i, attempts, bytesWritten, records, okOps, triedOps,
               exhausted, initReads, readyAtCall, textCmds, textFailed, lateCmd,
               connectOpened, sessionCloses, disconnected, redundantClose, lastReadEmpty, fpc,
               connectedDevicePath, capturedPath, flowOpened, closeCalls, closeEff, batch,
               processedRecords, ridx, rpc, serialResponse, deviceDate, timeSync, cbThrewAt,
               textInput, driverParsed, appParsed, checksumWarned, tpc, frameOpcode,
               framePayload, frameCommand, hidFrame, textFrame, appFrame, bpc, sendEnv,
               sendCommand, sendBytes, sendWritten, sendResponse, sendAttempts, sendReads,
               sendChunks, finalResponse, spc, nativeReturn, inFlight, promise, hasPermission,
               permissionRequestedDevices, autoRequestPermissions, unanswered,
               moduleUnanswered, targetHasPermission, permissionGranted, hpc>>

\* wake-up read: whatever comes back, or a rejection, is ignored
WakeUpRead ==
  /\ op = "connect" /\ dpc = "i_wake_r"
  /\ \E rej \in Rejects, bytes \in ReadBytes :
       LET response == readDataResult(bytes) IN
       /\ dpc' = "i_cmd_w"
       /\ wakeUp' = Append(wakeUp, IF rej THEN "throw"
                                   ELSE IF Len(response) > 0 THEN "data" ELSE "empty")
  /\ initReads' = initReads + 1
  /\ UNCHANGED <<mode, isHID, mayReject, callbackMayThrow, activeConnections, claimedInterfaces,
               liveConns, opens, deviceInfo, isConnected, deviceName, isInitialized, op, ret,
               i, attempts, bytesWritten, records, okOps, triedOps, exhausted, initWrites,
               lastData, lastWire, opIO, readyAtCall, textCmds, textFailed, lateCmd,
               connectOpened, sessionCloses, disconnected, redundantClose, lastReadEmpty, fpc,
               connectedDevicePath, capturedPath, flowOpened, closeCalls, closeEff, batch,
               processedRecords, ridx, rpc, serialResponse, deviceDate, timeSync, cbThrewAt,
               textInput, driverParsed, appParsed, checksumWarned, tpc, frameOpcode,
               framePayload, frameCommand, hidFrame, textFrame, appFrame, bpc, sendEnv,
               sendCommand, sendBytes, sendWritten, sendResponse, sendAttempts, sendReads,
               sendChunks, finalResponse, spc, nativeReturn, inFlight, promise, hasPermission,
               permissionRequestedDevices, autoRequestPermissions, unanswered,
               moduleUnanswered, targetHasPermission, permissionGranted, hpc>>

\* the command the init loop is at
CurrentCommand == INIT_SEQUENCE[i + 1]
LastCommand == i + 1 >= Len(INIT_SEQUENCE)

\* faulty variant of InitWrite: the retry loop has no attempt limit
InitWrite_noLimit ==
  /\ op = "connect" /\ dpc = "i_cmd_w"
  /\ bytesWritten < 0
  /\ \E rej \in Rejects, xfer \in Xfers, claimOk \in BOOLEAN :
       LET cmd == CurrentCommand
           frame == createHIDFrame(cmd, <<>>)
           r == writeDataResult(frame, xfer, claimOk)
           success == ~rej /\ r >= 0
           outOfAttempts == FALSE
           failNow == rej \/ outOfAttempts
           retry == ~rej /\ r < 0
           advance == success /\ cmd = 0
       IN
       /\ IF rej THEN NoNativeEffect ELSE writeData(frame, claimOk)
       /\ dpc' = IF failNow THEN "done"
                 ELSE IF retry THEN "i_cmd_w"
                 ELSE IF ~advance THEN "i_cmd_r"
                 ELSE IF LastCommand THEN "c_verify" ELSE "i_cmd_w"
       /\ i' = IF advance /\ ~LastCommand THEN i + 1 ELSE i
       /\ attempts' = IF advance /\ ~LastCommand THEN 0 ELSE attempts + 1
       /\ bytesWritten' = IF rej THEN bytesWritten
                          ELSE IF advance /\ ~LastCommand THEN -1 ELSE r
       /\ isInitialized' = IF failNow THEN FALSE
                           ELSE IF advance /\ LastCommand THEN TRUE ELSE isInitialized
       /\ isConnected' = IF failNow THEN FALSE ELSE isConnected
       /\ ret' = IF failNow THEN "throw" ELSE ret
       /\ okOps' = IF success THEN Append(okOps, cmd) ELSE okOps
       /\ exhausted' = IF outOfAttempts THEN cmd ELSE exhausted
  /\ triedOps' = IF attempts = 0 THEN Append(triedOps, CurrentCommand) ELSE triedOps
  /\ initWrites' = initWrites + 1
  /\ opIO' = TRUE
  /\ UNCHANGED <<mode, isHID, mayReject, callbackMayThrow, deviceInfo, deviceName, op, records,
               initReads, readyAtCall, textCmds, textFailed, lateCmd, connectOpened,
               sessionCloses, disconnected, redundantClose, lastReadEmpty, fpc,
               connectedDevicePath, capturedPath, flowOpened, closeCalls, closeEff, batch,
               processedRecords, ridx, rpc, serialResponse, wakeUp, deviceDate, timeSync,
               cbThrewAt, textInput, driverParsed, appParsed, checksumWarned, tpc,
               frameOpcode, framePayload, frameCommand, hidFrame, textFrame, appFrame, bpc,
               sendEnv, sendCommand, sendBytes, sendWritten, sendResponse, sendAttempts,
               sendReads, sendChunks, finalResponse, spc, nativeReturn, inFlight, promise,
               hasPermission, permissionRequestedDevices, autoRequestPermissions, unanswered,
               moduleUnanswered, targetHasPermission, permissionGranted, hpc>>

\* one attempt of sendInitCommand's retry loop
InitWrite ==
  /\ op = "connect" /\ dpc = "i_cmd_w"
  /\ attempts < maxAttempts /\ bytesWritten < 0
  /\ \E rej \in Rejects, xfer \in Xfers, claimOk \in BOOLEAN :
       LET cmd == CurrentCommand
           frame == createHIDFrame(cmd, <<>>)
           r == writeDataResult(frame, xfer, claimOk)
           success == ~rej /\ r >= 0
           outOfAttempts == ~rej /\ r < 0 /\ attempts + 1 >= maxAttempts
           failNow == rej \/ outOfAttempts
           retry == ~rej /\ r < 0 /\ attempts + 1 < maxAttempts
           advance == success /\ cmd = 0
       IN
       /\ IF rej THEN NoNativeEffect ELSE writeData(frame, claimOk)
       /\ dpc' = IF failNow THEN "done"
                 ELSE IF retry THEN "i_cmd_w"
                 ELSE IF ~advance THEN "i_cmd_r"
                 ELSE IF LastCommand THEN "c_verify" ELSE "i_cmd_w"
       /\ i' = IF advance /\ ~LastCommand THEN i + 1 ELSE i
       /\ attempts' = IF advance /\ ~LastCommand THEN 0 ELSE attempts + 1
       /\ bytesWritten' = IF rej THEN bytesWritten
                          ELSE IF advance /\ ~LastCommand THEN -1 ELSE r
       /\ isInitialized' = IF failNow THEN FALSE
                           ELSE IF advance /\ LastCommand THEN TRUE ELSE isInitialized
       /\ isConnected' = IF failNow THEN FALSE ELSE isConnected
       /\ ret' = IF failNow THEN "throw" ELSE ret
       /\ okOps' = IF success THEN Append(okOps, cmd) ELSE okOps
       /\ exhausted' = IF outOfAttempts THEN cmd ELSE exhausted
  /\ triedOps' = IF attempts = 0 THEN Append(triedOps, CurrentCommand) ELSE triedOps
  /\ initWrites' = initWrites + 1
  /\ opIO' = TRUE
  /\ UNCHANGED <<mode, isHID, mayReject, callbackMayThrow, deviceInfo, deviceName, op, records,
               initReads, readyAtCall, textCmds, textFailed, lateCmd, connectOpened,
               sessionCloses, disconnected, redundantClose, lastReadEmpty, fpc,
               connectedDevicePath, capturedPath, flowOpened, closeCalls, closeEff, batch,
               processedRecords, ridx, rpc, serialResponse, wakeUp, deviceDate, timeSync,
               cbThrewAt, textInput, driverParsed, appParsed, checksumWarned, tpc,
               frameOpcode, framePayload, frameCommand, hidFrame, textFrame, appFrame, bpc,
               sendEnv, sendCommand, sendBytes, sendWritten, sendResponse, sendAttempts,
               sendReads, sendChunks, finalResponse, spc, nativeReturn, inFlight, promise,
               hasPermission, permissionRequestedDevices, autoRequestPermissions, unanswered,
               moduleUnanswered, targetHasPermission, permissionGranted, hpc>>

\* faulty variant of InitRead: an empty or rejected read fails the step
InitRead_fatal ==
  /\ op = "connect" /\ dpc = "i_cmd_r"
  /\ \E rej \in Rejects, bytes \in ReadBytes :
       LET failed == rej \/ Len(readDataResult(bytes)) = 0
           last == LastCommand /\ ~failed
           next == ~LastCommand /\ ~failed
       IN
       /\ dpc' = IF failed THEN "done" ELSE IF last THEN "c_verify" ELSE "i_cmd_w"
       /\ ret' = IF failed THEN "throw" ELSE ret
       /\ isConnected' = IF failed THEN FALSE ELSE isConnected
       /\ i' = IF next THEN i + 1 ELSE i
       /\ attempts' = IF next THEN 0 ELSE attempts
       /\ bytesWritten' = IF next THEN -1 ELSE bytesWritten
       /\ isInitialized' = IF failed THEN FALSE ELSE IF last THEN TRUE ELSE isInitialized
  /\ initReads' = initReads + 1
  /\ UNCHANGED <<mode, isHID, mayReject, callbackMayThrow, activeConnections, claimedInterfaces,
               liveConns, opens, deviceInfo, deviceName, op, records, okOps, triedOps,
               exhausted, initWrites, lastData, lastWire, opIO, readyAtCall, textCmds,
               textFailed, lateCmd, connectOpened, sessionCloses, disconnected,
               redundantClose, lastReadEmpty, fpc, connectedDevicePath, capturedPath,
               flowOpened, closeCalls, closeEff, batch, processedRecords, ridx, rpc,
               serialResponse, wakeUp, deviceDate, timeSync, cbThrewAt, textInput,
               driverParsed, appParsed, checksumWarned, tpc, frameOpcode, framePayload,
               frameCommand, hidFrame, textFrame, appFrame, bpc, sendEnv, sendCommand,
               sendBytes, sendWritten, sendResponse, sendAttempts, sendReads, sendChunks,
               finalResponse, spc, nativeReturn, inFlight, promise, hasPermission,
               permissionRequestedDevices, autoRequestPermissions, unanswered,
               moduleUnanswered, targetHasPermission, permissionGranted, hpc>>

\* readInitResponse after a command other than 0x00: empty, data or a rejection,
\* the step goes on
InitRead ==
  /\ op = "connect" /\ dpc = "i_cmd_r"
  /\ \E rej \in Rejects, bytes \in ReadBytes :
       /\ dpc' = IF LastCommand THEN "c_verify" ELSE "i_cmd_w"
       /\ i' = IF LastCommand THEN i ELSE i + 1
       /\ attempts' = IF LastCommand THEN attempts ELSE 0
       /\ bytesWritten' = IF LastCommand THEN bytesWritten ELSE -1
       /\ isInitialized' = IF LastCommand THEN TRUE ELSE isInitialized
  /\ initReads' = initReads + 1
  /\ UNCHANGED <<mode, isHID, mayReject, callbackMayThrow, activeConnections, claimedInterfaces,
               liveConns, opens, deviceInfo, isConnected, deviceName, op, ret, records, okOps,
               triedOps, exhausted, initWrites, lastData, lastWire, opIO, readyAtCall,
               textCmds, textFailed, lateCmd, connectOpened, sessionCloses, disconnected,
               redundantClose, lastReadEmpty, fpc, connectedDevicePath, capturedPath,
               flowOpened, closeCalls, closeEff, batch, processedRecords, ridx, rpc,
               serialResponse, wakeUp, deviceDate, timeSync, cbThrewAt, textInput,
               driverParsed, appParsed, checksumWarned, tpc, frameOpcode, framePayload,
               frameCommand, hidFrame, textFrame, appFrame, bpc, sendEnv, sendCommand,
               sendBytes, sendWritten, sendResponse, sendAttempts, sendReads, sendChunks,
               finalResponse, spc, nativeReturn, inFlight, promise, hasPermission,
               permissionRequestedDevices, autoRequestPermissions, unanswered,
               moduleUnanswered, targetHasPermission, permissionGranted, hpc>>

\* the step-3 callback; verifyConnection: the test write [0x04, 0x00];
\* isConnected = true; the step-4 callback.  An exception of either callback
\* lands in connect's catch
VerifyConnection ==
  /\ op = "connect" /\ dpc = "c_verify"
  /\ \E threw3 \in CallbackThrows, threw4 \in CallbackThrows,
        rej \in Rejects, xfer \in Xfers, claimOk \in BOOLEAN :
       LET isStable == /\ ~threw3 /\ ~rej
                       /\ writeDataResult(TEST_COMMAND, xfer, claimOk) >= 0
           ok == isStable /\ ~threw4
       IN
       /\ IF threw3 \/ rej THEN NoNativeEffect ELSE writeData(TEST_COMMAND, claimOk)
       /\ cbThrewAt' = IF threw3 THEN 3 ELSE IF isStable /\ threw4 THEN 4 ELSE cbThrewAt
       /\ isConnected' = ok
       /\ ret' = IF ok THEN "ok" ELSE "throw"
       /\ opIO' = IF threw3 THEN opIO ELSE TRUE
  /\ dpc' = "done"
  /\ UNCHANGED <<mode, isHID, mayReject, callbackMayThrow, deviceInfo, deviceName,
               isInitialized, op, i, attempts, bytesWritten, records, okOps, triedOps,
               exhausted, initWrites, initReads, readyAtCall, textCmds, textFailed, lateCmd,
               connectOpened, sessionCloses, disconnected, redundantClose, lastReadEmpty, fpc,
               connectedDevicePath, capturedPath, flowOpened, closeCalls, closeEff, batch,
               processedRecords, ridx, rpc, serialResponse, wakeUp, deviceDate, timeSync,
               textInput, driverParsed, appParsed, checksumWarned, tpc, frameOpcode,
               framePayload, frameCommand, hidFrame, textFrame, appFrame, bpc, sendEnv,
               sendCommand, sendBytes, sendWritten, sendResponse, sendAttempts, sendReads,
               sendChunks, finalResponse, spc, nativeReturn, inFlight, promise, hasPermission,
               permissionRequestedDevices, autoRequestPermissions, unanswered,
               moduleUnanswered, targetHasPermission, permissionGranted, hpc>>

(***************************************************************************)
(* getDeviceInfo: getSerialNumber, getDeviceDateTime.                      *)
(***************************************************************************)
\* the step-1 callback; getSerialNumber: this.deviceInfo.deviceName is a
\* TypeError on a null deviceInfo; an empty or unparseable answer throws
GetSerialNumber ==
  /\ op = "getDeviceInfo" /\ dpc = "g_serial"
  /\ \E threw \in CallbackThrows :
       /\ cbThrewAt' = IF threw THEN 1 ELSE cbThrewAt
       /\ IF threw \/ deviceInfo = Null
          THEN /\ dpc' = "done"
               /\ ret' = "throw"
               /\ UNCHANGED <<textCmds, opIO, textFailed, serialResponse>>
          ELSE \E rej \in Rejects, resp \in TextResponses :
                 LET response == sendTextCommandResult(resp)
                     serialNumber == parseTextResponse(response)
                     ok == /\ ~rej
                           /\ ~(response = <<>> \/ trimIsEmpty(response))
                           /\ ~Falsy(serialNumber)
                 IN
                 /\ textCmds' = Append(textCmds, "$serlnum?")
                 /\ opIO' = TRUE
                 /\ serialResponse' = IF rej THEN serialResponse ELSE response
                 /\ textFailed' = ~ok
                 /\ dpc' = IF ok THEN "g_date" ELSE "done"
                 /\ ret' = IF ok THEN ret ELSE "throw"
  /\ UNCHANGED <<mode, isHID, mayReject, callbackMayThrow, activeConnections, claimedInterfaces,
               liveConns, opens, deviceInfo, isConnected, deviceName, isInitialized, op, i,
               attempts, bytesWritten, records, okOps, triedOps, exhausted, initWrites,
               initReads, lastData, lastWire, readyAtCall, lateCmd, connectOpened,
               sessionCloses, disconnected, redundantClose, lastReadEmpty, fpc,
               connectedDevicePath, capturedPath, flowOpened, closeCalls, closeEff, batch,
               processedRecords, ridx, rpc, wakeUp, deviceDate, timeSync, textInput,
               driverParsed, appParsed, checksumWarned, tpc, frameOpcode, framePayload,
               frameCommand, hidFrame, textFrame, appFrame, bpc, sendEnv, sendCommand,
               sendBytes, sendWritten, sendResponse, sendAttempts, sendReads, sendChunks,
               finalResponse, spc, nativeReturn, inFlight, promise, hasPermission,
               permissionRequestedDevices, autoRequestPermissions, unanswered,
               moduleUnanswered, targetHasPermission, permissionGranted, hpc>>

\* the step-2 callback; getDeviceDateTime, first half: the date answer is
\* parsed, not yet checked
GetDate ==
  /\ op = "getDeviceInfo" /\ dpc = "g_date"
  /\ \E threw \in CallbackThrows, rej \in Rejects,
        resp \in TextResponses \cup ClockResponses :
       LET date == parseTextResponse(sendTextCommandResult(resp)) IN
       /\ cbThrewAt' = IF threw THEN 2 ELSE cbThrewAt
       /\ textFailed' = IF threw THEN textFailed ELSE (rej \/ Falsy(date))
       /\ deviceDate' = IF threw \/ rej THEN NullText ELSE date
       /\ dpc' = IF threw \/ rej THEN "done" ELSE "g_time"
       /\ ret' = IF threw \/ rej THEN "throw" ELSE ret
       /\ textCmds' = IF threw THEN textCmds ELSE Append(textCmds, "$date?")
       /\ opIO' = IF threw THEN opIO ELSE TRUE
  /\ UNCHANGED <<mode, isHID, mayReject, callbackMayThrow, activeConnections, claimedInterfaces,
               liveConns, opens, deviceInfo, isConnected, deviceName, isInitialized, op, i,
               attempts, bytesWritten, records, okOps, triedOps, exhausted, initWrites,
               initReads, lastData, lastWire, readyAtCall, lateCmd, connectOpened,
               sessionCloses, disconnected, redundantClose, lastReadEmpty, fpc,
               connectedDevicePath, capturedPath, flowOpened, closeCalls, closeEff, batch,
               processedRecords, ridx, rpc, serialResponse, wakeUp, timeSync, textInput,
               driverParsed, appParsed, checksumWarned, tpc, frameOpcode, framePayload,
               frameCommand, hidFrame, textFrame, appFrame, bpc, sendEnv, sendCommand,
               sendBytes, sendWritten, sendResponse, sendAttempts, sendReads, sendChunks,
               finalResponse, spc, nativeReturn, inFlight, promise, hasPermission,
               permissionRequestedDevices, autoRequestPermissions, unanswered,
               moduleUnanswered, targetHasPermission, permissionGranted, hpc>>

\* getDeviceDateTime, second half: $time? is sent whatever the date was;
\* then !date || !time throws.  With both, formatted is `${date} ${time}`
\* and getDeviceInfo invokes the step-3 callback and goes on to
\* verifyTimeSync, which reads the host clock
GetTime ==
  /\ op = "getDeviceInfo" /\ dpc = "g_time"
  /\ \E threw \in CallbackThrows, rej \in Rejects,
        resp \in TextResponses \cup ClockResponses :
       LET time == parseTextResponse(sendTextCommandResult(resp))
           dateTime == ~rej /\ ~textFailed /\ ~Falsy(time)
           ok == dateTime /\ ~threw
       IN
       /\ cbThrewAt' = IF dateTime /\ threw THEN 3 ELSE cbThrewAt
       /\ ret' = IF ok THEN "ok" ELSE "throw"
       /\ IF ok
          THEN \E now \in HostTimes :
                 timeSync' = verifyTimeSync(deviceDate[1] \o <<SPACE>> \o time[1], now)
          ELSE timeSync' = NoSync
  /\ deviceDate' = NullText
  /\ lateCmd' = textFailed
  /\ textCmds' = Append(textCmds, "$time?")
  /\ dpc' = "done"
  /\ opIO' = TRUE
  /\ UNCHANGED <<mode, isHID, mayReject, callbackMayThrow, activeConnections, claimedInterfaces,
               liveConns, opens, deviceInfo, isConnected, deviceName, isInitialized, op, i,
               attempts, bytesWritten, records, okOps, triedOps, exhausted, initWrites,
               initReads, lastData, lastWire, readyAtCall, textFailed, connectOpened,
               sessionCloses, disconnected, redundantClose, lastReadEmpty, fpc,
               connectedDevicePath, capturedPath, flowOpened, closeCalls, closeEff, batch,
               processedRecords, ridx, rpc, serialResponse, wakeUp, textInput, driverParsed,
               appParsed, checksumWarned, tpc, frameOpcode, framePayload, frameCommand,
               hidFrame, textFrame, appFrame, bpc, sendEnv, sendCommand, sendBytes,
               sendWritten, sendResponse, sendAttempts, sendReads, sendChunks, finalResponse,
               spc, nativeReturn, inFlight, promise, hasPermission,
               permissionRequestedDevices, autoRequestPermissions, unanswered,
               moduleUnanswered, targetHasPermission, permissionGranted, hpc>>

(***************************************************************************)
(* fetchData: protocol.getResults -> requestTextResponse('$result?').      *)
(***************************************************************************)
\* response.filter(b => b >= 32 && b <= 126)
Printable(bytes) == SelectSeq(bytes, LAMBDA b : b >= 32 /\ b <= 126)

\* response.trim() is empty
IsBlank(text) == \A k \in 1..Len(text) : text[k] = 32

\* the records getResults returns for a text response (their number):
\* none for a blank text, else the trimmed text as one line, as the filter
\* has removed every CR and LF
getResults(text) == IF IsBlank(text) THEN 0 ELSE 1

\* the step-1 callback; requestTextResponse up to its write: throws when
\* the protocol is not initialized or the write is negative
FetchWrite ==
  /\ op = "fetchData" /\ dpc = "f_write"
  /\ \E threw \in CallbackThrows :
       /\ cbThrewAt' = IF threw THEN 1 ELSE cbThrewAt
       /\ IF threw \/ ~isInitialized
          THEN /\ dpc' = "done"
               /\ ret' = "throw"
               /\ UNCHANGED <<opIO, nativeVars, wireObs>>
          ELSE \E rej \in Rejects, xfer \in Xfers, claimOk \in BOOLEAN :
                 LET frame == createTextCommandFrame(RESULTS_COMMAND)
                     ok == ~rej /\ writeDataResult(frame, xfer, claimOk) >= 0
                 IN
                 /\ IF rej THEN NoNativeEffect ELSE writeData(frame, claimOk)
                 /\ opIO' = TRUE
                 /\ dpc' = IF ok THEN "f_read" ELSE "done"
                 /\ ret' = IF ok THEN ret ELSE "throw"
  /\ UNCHANGED <<mode, isHID, mayReject, callbackMayThrow, deviceInfo, isConnected, deviceName,
               isInitialized, op, i, attempts, bytesWritten, records, okOps, triedOps,
               exhausted, initWrites, initReads, readyAtCall, textCmds, textFailed, lateCmd,
               connectOpened, sessionCloses, disconnected, redundantClose, lastReadEmpty, fpc,
               connectedDevicePath, capturedPath, flowOpened, closeCalls, closeEff, batch,
               processedRecords, ridx, rpc, serialResponse, wakeUp, deviceDate, timeSync,
               textInput, driverParsed, appParsed, checksumWarned, tpc, frameOpcode,
               framePayload, frameCommand, hidFrame, textFrame, appFrame, bpc, sendEnv,
               sendCommand, sendBytes, sendWritten, sendResponse, sendAttempts, sendReads,
               sendChunks, finalResponse, spc, nativeReturn, inFlight, promise, hasPermission,
               permissionRequestedDevices, autoRequestPermissions, unanswered,
               moduleUnanswered, targetHasPermission, permissionGranted, hpc>>

\* requestTextResponse's read: no bytes throws; else getResults returns,
\* the step-2 callback is invoked, processRecords runs and fetchData returns
FetchRead ==
  /\ op = "fetchData" /\ dpc = "f_read"
  /\ \E threw \in CallbackThrows, rej \in Rejects, bytes \in ReadBytes :
       LET response == readDataResult(bytes)
           got == ~rej /\ Len(response) > 0
           ok == got /\ ~threw
       IN
       /\ cbThrewAt' = IF got /\ threw THEN 2 ELSE cbThrewAt
       /\ lastReadEmpty' = (~rej /\ Len(response) = 0)
       /\ records' = IF ok THEN getResults(Printable(response)) ELSE records
       /\ ret' = IF ok THEN "ok" ELSE "throw"
  /\ dpc' = "done"
  /\ UNCHANGED <<mode, isHID, mayReject, callbackMayThrow, activeConnections, claimedInterfaces,
               liveConns, opens, deviceInfo, isConnected, deviceName, isInitialized, op, i,
               attempts, bytesWritten, okOps, triedOps, exhausted, initWrites, initReads,
               lastData, lastWire, opIO, readyAtCall, textCmds, textFailed, lateCmd,
               connectOpened, sessionCloses, disconnected, redundantClose, fpc,
               connectedDevicePath, capturedPath, flowOpened, closeCalls, closeEff, batch,
               processedRecords, ridx, rpc, serialResponse, wakeUp, deviceDate, timeSync,
               textInput, driverParsed, appParsed, checksumWarned, tpc, frameOpcode,
               framePayload, frameCommand, hidFrame, textFrame, appFrame, bpc, sendEnv,
               sendCommand, sendBytes, sendWritten, sendResponse, sendAttempts, sendReads,
               sendChunks, finalResponse, spc, nativeReturn, inFlight, promise, hasPermission,
               permissionRequestedDevices, autoRequestPermissions, unanswered,
               moduleUnanswered, targetHasPermission, permissionGranted, hpc>>

(***************************************************************************)
(* disconnect.                                                             *)
(***************************************************************************)
Bump(n) == IF n < 2 THEN n + 1 ELSE n

\* faulty variant of Disconnect: deviceInfo is not cleared
Disconnect_keepsDeviceInfo ==
  /\ op = "disconnect" /\ dpc = "d_close"
  /\ IF deviceInfo # Null
     THEN \E rej \in Rejects :
            /\ IF rej THEN UNCHANGED nativeVars ELSE closeDevice
            /\ closeEff' = IF ~rej /\ closeDeviceResult /\ mode # "api"
                           THEN closeEff + 1 ELSE closeEff
            /\ closeCalls' = IF mode # "api" THEN closeCalls + 1 ELSE closeCalls
            /\ sessionCloses' = Bump(sessionCloses)
            /\ redundantClose' = (redundantClose \/ disconnected)
            /\ opIO' = TRUE
            /\ isConnected' = IF rej THEN isConnected ELSE FALSE
            /\ disconnected' = IF rej THEN disconnected ELSE TRUE
            /\ ret' = IF rej THEN "throw" ELSE "ok"
     ELSE /\ isConnected' = FALSE
          /\ disconnected' = TRUE
          /\ ret' = "ok"
          /\ UNCHANGED <<nativeVars, closeEff, closeCalls, sessionCloses,
                         redundantClose, opIO>>
  /\ dpc' = "done"
  /\ UNCHANGED <<mode, isHID, mayReject, callbackMayThrow, deviceInfo, deviceName,
               isInitialized, op, i, attempts, bytesWritten, records, okOps, triedOps,
               exhausted, initWrites, initReads, lastData, lastWire, readyAtCall, textCmds,
               textFailed, lateCmd, connectOpened, lastReadEmpty, fpc, connectedDevicePath,
               capturedPath, flowOpened, batch, processedRecords, ridx, rpc, serialResponse,
               wakeUp, deviceDate, timeSync, cbThrewAt, textInput, driverParsed, appParsed,
               checksumWarned, tpc, frameOpcode, framePayload, frameCommand, hidFrame,
               textFrame, appFrame, bpc, sendEnv, sendCommand, sendBytes, sendWritten,
               sendResponse, sendAttempts, sendReads, sendChunks, finalResponse, spc,
               nativeReturn, inFlight, promise, hasPermission, permissionRequestedDevices,
               autoRequestPermissions, unanswered, moduleUnanswered, targetHasPermission,
               permissionGranted, hpc>>

\* closeDevice is called when deviceInfo is set; a rejection leaves the
\* driver's fields as they were
Disconnect ==
  /\ op = "disconnect" /\ dpc = "d_close"
  /\ IF deviceInfo # Null
     THEN \E rej \in Rejects :
            /\ IF rej THEN UNCHANGED nativeVars ELSE closeDevice
            /\ closeEff' = IF ~rej /\ closeDeviceResult /\ mode # "api"
                           THEN closeEff + 1 ELSE closeEff
            /\ closeCalls' = IF mode # "api" THEN closeCalls + 1 ELSE closeCalls
            /\ sessionCloses' = Bump(sessionCloses)
            /\ redundantClose' = (redundantClose \/ disconnected)
            /\ opIO' = TRUE
            /\ isConnected' = IF rej THEN isConnected ELSE FALSE
            /\ deviceInfo' = IF rej THEN deviceInfo ELSE Null
            /\ disconnected' = IF rej THEN disconnected ELSE TRUE
            /\ ret' = IF rej THEN "throw" ELSE "ok"
     ELSE /\ isConnected' = FALSE
          /\ deviceInfo' = Null
          /\ disconnected' = TRUE
          /\ ret' = "ok"
          /\ UNCHANGED <<nativeVars, closeEff, closeCalls, sessionCloses,
                         redundantClose, opIO>>
  /\ dpc' = "done"
  /\ UNCHANGED <<mode, isHID, mayReject, callbackMayThrow, deviceName, isInitialized, op, i,
               attempts, bytesWritten, records, okOps, triedOps, exhausted, initWrites,
               initReads, lastData, lastWire, readyAtCall, textCmds, textFailed, lateCmd,
               connectOpened, lastReadEmpty, fpc, connectedDevicePath, capturedPath,
               flowOpened, batch, processedRecords, ridx, rpc, serialResponse, wakeUp,
               deviceDate, timeSync, cbThrewAt, textInput, driverParsed, appParsed,
               checksumWarned, tpc, frameOpcode, framePayload, frameCommand, hidFrame,
               textFrame, appFrame, bpc, sendEnv, sendCommand, sendBytes, sendWritten,
               sendResponse, sendAttempts, sendReads, sendChunks, finalResponse, spc,
               nativeReturn, inFlight, promise, hasPermission, permissionRequestedDevices,
               autoRequestPermissions, unanswered, moduleUnanswered, targetHasPermission,
               permissionGranted, hpc>>

(***************************************************************************)
(* A caller that owns one driver and calls its methods in any order.       *)
(***************************************************************************)
ApiConnect ==
  /\ mode = "api" /\ NoCall
  /\ BeginConnect(FALSE)
  /\ UNCHANGED <<mode, isHID, mayReject, callbackMayThrow, activeConnections, claimedInterfaces,
               liveConns, opens, fpc, connectedDevicePath, capturedPath, flowOpened,
               closeCalls, closeEff, batch, processedRecords, ridx, rpc, textInput,
               driverParsed, appParsed, checksumWarned, tpc, frameOpcode, framePayload,
               frameCommand, hidFrame, textFrame, appFrame, bpc, sendEnv, sendCommand,
               sendBytes, sendWritten, sendResponse, sendAttempts, sendReads, sendChunks,
               finalResponse, spc, nativeReturn, inFlight, promise, hasPermission,
               permissionRequestedDevices, autoRequestPermissions, unanswered,
               moduleUnanswered, targetHasPermission, permissionGranted, hpc>>

ApiGetDeviceInfo ==
  /\ mode = "api" /\ NoCall
  /\ BeginGetDeviceInfo
  /\ UNCHANGED <<mode, isHID, mayReject, callbackMayThrow, activeConnections, claimedInterfaces,
               liveConns, opens, deviceInfo, isConnected, deviceName, isInitialized,
               sessionCloses, disconnected, redundantClose, fpc, connectedDevicePath,
               capturedPath, flowOpened, closeCalls, closeEff, batch, processedRecords, ridx,
               rpc, textInput, driverParsed, appParsed, checksumWarned, tpc, frameOpcode,
               framePayload, frameCommand, hidFrame, textFrame, appFrame, bpc, sendEnv,
               sendCommand, sendBytes, sendWritten, sendResponse, sendAttempts, sendReads,
               sendChunks, finalResponse, spc, nativeReturn, inFlight, promise, hasPermission,
               permissionRequestedDevices, autoRequestPermissions, unanswered,
               moduleUnanswered, targetHasPermission, permissionGranted, hpc>>

ApiFetchData ==
  /\ mode = "api" /\ NoCall
  /\ BeginFetchData
  /\ UNCHANGED <<mode, isHID, mayReject, callbackMayThrow, activeConnections, claimedInterfaces,
               liveConns, opens, deviceInfo, isConnected, deviceName, isInitialized,
               sessionCloses, disconnected, redundantClose, fpc, connectedDevicePath,
               capturedPath, flowOpened, closeCalls, closeEff, batch, processedRecords, ridx,
               rpc, textInput, driverParsed, appParsed, checksumWarned, tpc, frameOpcode,
               framePayload, frameCommand, hidFrame, textFrame, appFrame, bpc, sendEnv,
               sendCommand, sendBytes, sendWritten, sendResponse, sendAttempts, sendReads,
               sendChunks, finalResponse, spc, nativeReturn, inFlight, promise, hasPermission,
               permissionRequestedDevices, autoRequestPermissions, unanswered,
               moduleUnanswered, targetHasPermission, permissionGranted, hpc>>

ApiDisconnect ==
  /\ mode = "api" /\ NoCall
  /\ BeginDisconnect
  /\ UNCHANGED <<mode, isHID, mayReject, callbackMayThrow, activeConnections, claimedInterfaces,
               liveConns, opens, deviceInfo, isConnected, deviceName, isInitialized,
               sessionCloses, disconnected, redundantClose, fpc, connectedDevicePath,
               capturedPath, flowOpened, closeCalls, closeEff, batch, processedRecords, ridx,
               rpc, textInput, driverParsed, appParsed, checksumWarned, tpc, frameOpcode,
               framePayload, frameCommand, hidFrame, textFrame, appFrame, bpc, sendEnv,
               sendCommand, sendBytes, sendWritten, sendResponse, sendAttempts, sendReads,
               sendChunks, finalResponse, spc, nativeReturn, inFlight, promise, hasPermission,
               permissionRequestedDevices, autoRequestPermissions, unanswered,
               moduleUnanswered, targetHasPermission, permissionGranted, hpc>>

(***************************************************************************)
(* handleUSBConnection (App.tsx).  The handler reads connectedDevicePath   *)
(* as React state of the render that created it: capturedPath.             *)
(***************************************************************************)
FlowIdle == fpc \in {"idle", "end"} /\ NoCall

\* the driver of a flow is a local of communicateWithFreeStyleNeo /
\* communicateWithAbbottDevice: a new flow holds no driver of an earlier one
NoDriver ==
  /\ StartCall("none", "idle")
  /\ deviceInfo' = Null
  /\ isConnected' = FALSE
  /\ deviceName' = Null
  /\ isInitialized' = FALSE
  /\ readyAtCall' = FALSE
  /\ sessionCloses' = 0
  /\ disconnected' = FALSE
  /\ redundantClose' = FALSE

\* steps 1 and 2: detectDevices, requestPermission; "stop" is an early return
HStart ==
  /\ mode = "handleUSB" /\ FlowIdle
  /\ \E out \in {"go", "stop"} \cup (IF mayReject THEN {"reject"} ELSE {}) :
       fpc' = CASE out = "go" -> "h_open"
                [] out = "stop" -> "end"
                [] OTHER -> "h_catch"
  /\ capturedPath' = connectedDevicePath
  /\ flowOpened' = FALSE
  /\ closeCalls' = 0
  /\ closeEff' = 0
  /\ NoDriver
  /\ UNCHANGED <<mode, isHID, mayReject, callbackMayThrow, activeConnections, claimedInterfaces,
               liveConns, opens, connectedDevicePath, batch, processedRecords, ridx, rpc,
               textInput, driverParsed, appParsed, checksumWarned, tpc, frameOpcode,
               framePayload, frameCommand, hidFrame, textFrame, appFrame, bpc, sendEnv,
               sendCommand, sendBytes, sendWritten, sendResponse, sendAttempts, sendReads,
               sendChunks, finalResponse, spc, nativeReturn, inFlight, promise, hasPermission,
               permissionRequestedDevices, autoRequestPermissions, unanswered,
               moduleUnanswered, targetHasPermission, permissionGranted, hpc>>

\* step 3: openDevice, then setConnectedDevicePath(deviceName)
HOpen ==
  /\ mode = "handleUSB" /\ fpc = "h_open"
  /\ opens < MaxOpens
  /\ \E rej \in Rejects, osOk \in BOOLEAN :
       LET opened == ~rej /\ osOk IN
       /\ IF opened THEN openDevice ELSE UNCHANGED nativeVars
       /\ flowOpened' = opened
       /\ connectedDevicePath' = IF opened THEN Dev ELSE connectedDevicePath
       /\ fpc' = IF rej THEN "h_catch" ELSE IF opened THEN "h_claim" ELSE "end"
  /\ UNCHANGED <<mode, isHID, mayReject, callbackMayThrow, deviceInfo, isConnected, deviceName,
               isInitialized, op, dpc, ret, i, attempts, bytesWritten, records, okOps,
               triedOps, exhausted, initWrites, initReads, lastData, lastWire, opIO,
               readyAtCall, textCmds, textFailed, lateCmd, connectOpened, sessionCloses,
               disconnected, redundantClose, lastReadEmpty, capturedPath, closeCalls,
               closeEff, batch, processedRecords, ridx, rpc, serialResponse, wakeUp,
               deviceDate, timeSync, cbThrewAt, textInput, driverParsed, appParsed,
               checksumWarned, tpc, frameOpcode, framePayload, frameCommand, hidFrame,
               textFrame, appFrame, bpc, sendEnv, sendCommand, sendBytes, sendWritten,
               sendResponse, sendAttempts, sendReads, sendChunks, finalResponse, spc,
               nativeReturn, inFlight, promise, hasPermission, permissionRequestedDevices,
               autoRequestPermissions, unanswered, moduleUnanswered, targetHasPermission,
               permissionGranted, hpc>>

\* step 4: claimInterface
HClaim ==
  /\ mode = "handleUSB" /\ fpc = "h_claim"
  /\ \E rej \in Rejects, osOk \in BOOLEAN :
       /\ IF rej THEN UNCHANGED nativeVars ELSE claimInterface(osOk)
       /\ fpc' = IF rej THEN "h_catch"
                 ELSE IF claimInterfaceResult(osOk) THEN "h_comm" ELSE "h_unclaimed"
  /\ UNCHANGED <<mode, isHID, mayReject, callbackMayThrow, deviceInfo, isConnected, deviceName,
               isInitialized, op, dpc, ret, i, attempts, bytesWritten, records, okOps,
               triedOps, exhausted, initWrites, initReads, lastData, lastWire, opIO,
               readyAtCall, textCmds, textFailed, lateCmd, connectOpened, sessionCloses,
               disconnected, redundantClose, lastReadEmpty, connectedDevicePath, capturedPath,
               flowOpened, closeCalls, closeEff, batch, processedRecords, ridx, rpc,
               serialResponse, wakeUp, deviceDate, timeSync, cbThrewAt, textInput,
               driverParsed, appParsed, checksumWarned, tpc, frameOpcode, framePayload,
               frameCommand, hidFrame, textFrame, appFrame, bpc, sendEnv, sendCommand,
               sendBytes, sendWritten, sendResponse, sendAttempts, sendReads, sendChunks,
               finalResponse, spc, nativeReturn, inFlight, promise, hasPermission,
               permissionRequestedDevices, autoRequestPermissions, unanswered,
               moduleUnanswered, targetHasPermission, permissionGranted, hpc>>

\* the close of the !claimed branch
HCloseUnclaimed ==
  /\ mode = "handleUSB" /\ fpc = "h_unclaimed"
  /\ \E rej \in Rejects :
       /\ IF rej THEN UNCHANGED nativeVars ELSE closeDevice
       /\ closeEff' = IF ~rej /\ closeDeviceResult THEN closeEff + 1 ELSE closeEff
       /\ connectedDevicePath' = IF rej THEN connectedDevicePath ELSE Null
       /\ fpc' = IF rej THEN "h_catch" ELSE "end"
  /\ closeCalls' = closeCalls + 1
  /\ UNCHANGED <<mode, isHID, mayReject, callbackMayThrow, deviceInfo, isConnected, deviceName,
               isInitialized, op, dpc, ret, i, attempts, bytesWritten, records, okOps,
               triedOps, exhausted, initWrites, initReads, lastData, lastWire, opIO,
               readyAtCall, textCmds, textFailed, lateCmd, connectOpened, sessionCloses,
               disconnected, redundantClose, lastReadEmpty, capturedPath, flowOpened, batch,
               processedRecords, ridx, rpc, serialResponse, wakeUp, deviceDate, timeSync,
               cbThrewAt, textInput, driverParsed, appParsed, checksumWarned, tpc,
               frameOpcode, framePayload, frameCommand, hidFrame, textFrame, appFrame, bpc,
               sendEnv, sendCommand, sendBytes, sendWritten, sendResponse, sendAttempts,
               sendReads, sendChunks, finalResponse, spc, nativeReturn, inFlight, promise,
               hasPermission, permissionRequestedDevices, autoRequestPermissions, unanswered,
               moduleUnanswered, targetHasPermission, permissionGranted, hpc>>

\* step 5: communicateWithFreeStyleNeo creates a driver and calls connect
HCommunicate ==
  /\ mode = "handleUSB" /\ fpc = "h_comm"
  /\ BeginConnect(TRUE)
  /\ fpc' = "h_connect"
  /\ UNCHANGED <<mode, isHID, mayReject, callbackMayThrow, activeConnections, claimedInterfaces,
               liveConns, opens, connectedDevicePath, capturedPath, flowOpened, closeCalls,
               closeEff, batch, processedRecords, ridx, rpc, textInput, driverParsed,
               appParsed, checksumWarned, tpc, frameOpcode, framePayload, frameCommand,
               hidFrame, textFrame, appFrame, bpc, sendEnv, sendCommand, sendBytes,
               sendWritten, sendResponse, sendAttempts, sendReads, sendChunks, finalResponse,
               spc, nativeReturn, inFlight, promise, hasPermission,
               permissionRequestedDevices, autoRequestPermissions, unanswered,
               moduleUnanswered, targetHasPermission, permissionGranted, hpc>>

\* connect returned: getDeviceInfo; it threw: the error is logged by the
\* inner try/catch of handleUSBConnection and the flow goes on to step 6
HAfterConnect ==
  /\ mode = "handleUSB" /\ fpc = "h_connect" /\ dpc = "done"
  /\ IF ret = "ok"
     THEN /\ BeginGetDeviceInfo
          /\ fpc' = "h_info"
     ELSE /\ fpc' = "h_close"
          /\ UNCHANGED <<callVars, initObs, wireObs, opIO, readyAtCall, textCmds,
                         textFailed, lateCmd, connectOpened, lastReadEmpty,
                         serialResponse, wakeUp,
                         deviceDate, timeSync, cbThrewAt>>
  /\ UNCHANGED <<mode, isHID, mayReject, callbackMayThrow, activeConnections, claimedInterfaces,
               liveConns, opens, deviceInfo, isConnected, deviceName, isInitialized,
               sessionCloses, disconnected, redundantClose, connectedDevicePath, capturedPath,
               flowOpened, closeCalls, closeEff, batch, processedRecords, ridx, rpc,
               textInput, driverParsed, appParsed, checksumWarned, tpc, frameOpcode,
               framePayload, frameCommand, hidFrame, textFrame, appFrame, bpc, sendEnv,
               sendCommand, sendBytes, sendWritten, sendResponse, sendAttempts, sendReads,
               sendChunks, finalResponse, spc, nativeReturn, inFlight, promise, hasPermission,
               permissionRequestedDevices, autoRequestPermissions, unanswered,
               moduleUnanswered, targetHasPermission, permissionGranted, hpc>>

HAfterInfo ==
  /\ mode = "handleUSB" /\ fpc = "h_info" /\ dpc = "done"
  /\ IF ret = "ok"
     THEN /\ BeginDisconnect
          /\ fpc' = "h_disc"
     ELSE /\ fpc' = "h_close"
          /\ UNCHANGED <<callVars, initObs, wireObs, opIO, readyAtCall, textCmds,
                         textFailed, lateCmd, connectOpened, lastReadEmpty,
                         serialResponse, wakeUp,
                         deviceDate, timeSync, cbThrewAt>>
  /\ UNCHANGED <<mode, isHID, mayReject, callbackMayThrow, activeConnections, claimedInterfaces,
               liveConns, opens, deviceInfo, isConnected, deviceName, isInitialized,
               sessionCloses, disconnected, redundantClose, connectedDevicePath, capturedPath,
               flowOpened, closeCalls, closeEff, batch, processedRecords, ridx, rpc,
               textInput, driverParsed, appParsed, checksumWarned, tpc, frameOpcode,
               framePayload, frameCommand, hidFrame, textFrame, appFrame, bpc, sendEnv,
               sendCommand, sendBytes, sendWritten, sendResponse, sendAttempts, sendReads,
               sendChunks, finalResponse, spc, nativeReturn, inFlight, promise, hasPermission,
               permissionRequestedDevices, autoRequestPermissions, unanswered,
               moduleUnanswered, targetHasPermission, permissionGranted, hpc>>

HAfterDisconnect ==
  /\ mode = "handleUSB" /\ fpc = "h_disc" /\ dpc = "done"
  /\ fpc' = "h_close"
  /\ UNCHANGED <<mode, isHID, mayReject, callbackMayThrow, activeConnections, claimedInterfaces,
               liveConns, opens, deviceInfo, isConnected, deviceName, isInitialized, op, dpc,
               ret, i, attempts, bytesWritten, records, okOps, triedOps, exhausted,
               initWrites, initReads, lastData, lastWire, opIO, readyAtCall, textCmds,
               textFailed, lateCmd, connectOpened, sessionCloses, disconnected,
               redundantClose, lastReadEmpty, connectedDevicePath, capturedPath, flowOpened,
               closeCalls, closeEff, batch, processedRecords, ridx, rpc, serialResponse,
               wakeUp, deviceDate, timeSync, cbThrewAt, textInput, driverParsed, appParsed,
               checksumWarned, tpc, frameOpcode, framePayload, frameCommand, hidFrame,
               textFrame, appFrame, bpc, sendEnv, sendCommand, sendBytes, sendWritten,
               sendResponse, sendAttempts, sendReads, sendChunks, finalResponse, spc,
               nativeReturn, inFlight, promise, hasPermission, permissionRequestedDevices,
               autoRequestPermissions, unanswered, moduleUnanswered, targetHasPermission,
               permissionGranted, hpc>>

\* step 6: closeDevice, setConnectedDevicePath(null)
HClose ==
  /\ mode = "handleUSB" /\ fpc = "h_close"
  /\ \E rej \in Rejects :
       /\ IF rej THEN UNCHANGED nativeVars ELSE closeDevice
       /\ closeEff' = IF ~rej /\ closeDeviceResult THEN closeEff + 1 ELSE closeEff
       /\ connectedDevicePath' = IF rej THEN connectedDevicePath ELSE Null
       /\ fpc' = IF rej THEN "h_catch" ELSE "end"
  /\ closeCalls' = closeCalls + 1
  /\ UNCHANGED <<mode, isHID, mayReject, callbackMayThrow, deviceInfo, isConnected, deviceName,
               isInitialized, op, dpc, ret, i, attempts, bytesWritten, records, okOps,
               triedOps, exhausted, initWrites, initReads, lastData, lastWire, opIO,
               readyAtCall, textCmds, textFailed, lateCmd, connectOpened, sessionCloses,
               disconnected, redundantClose, lastReadEmpty, capturedPath, flowOpened, batch,
               processedRecords, ridx, rpc, serialResponse, wakeUp, deviceDate, timeSync,
               cbThrewAt, textInput, driverParsed, appParsed, checksumWarned, tpc,
               frameOpcode, framePayload, frameCommand, hidFrame, textFrame, appFrame, bpc,
               sendEnv, sendCommand, sendBytes, sendWritten, sendResponse, sendAttempts,
               sendReads, sendChunks, finalResponse, spc, nativeReturn, inFlight, promise,
               hasPermission, permissionRequestedDevices, autoRequestPermissions, unanswered,
               moduleUnanswered, targetHasPermission, permissionGranted, hpc>>

\* the outer catch: closes only if (connectedDevicePath), the captured value
HCatch ==
  /\ mode = "handleUSB" /\ fpc = "h_catch"
  /\ IF capturedPath # Null
     THEN \E rej \in Rejects :
            /\ IF rej THEN UNCHANGED nativeVars ELSE closeDevice
            /\ closeEff' = IF ~rej /\ closeDeviceResult THEN closeEff + 1 ELSE closeEff
            /\ connectedDevicePath' = IF rej THEN connectedDevicePath ELSE Null
            /\ closeCalls' = closeCalls + 1
     ELSE UNCHANGED <<nativeVars, closeEff, connectedDevicePath, closeCalls>>
  /\ fpc' = "end"
  /\ UNCHANGED <<mode, isHID, mayReject, callbackMayThrow, deviceInfo, isConnected, deviceName,
               isInitialized, op, dpc, ret, i, attempts, bytesWritten, records, okOps,
               triedOps, exhausted, initWrites, initReads, lastData, lastWire, opIO,
               readyAtCall, textCmds, textFailed, lateCmd, connectOpened, sessionCloses,
               disconnected, redundantClose, lastReadEmpty, capturedPath, flowOpened, batch,
               processedRecords, ridx, rpc, serialResponse, wakeUp, deviceDate, timeSync,
               cbThrewAt, textInput, driverParsed, appParsed, checksumWarned, tpc,
               frameOpcode, framePayload, frameCommand, hidFrame, textFrame, appFrame, bpc,
               sendEnv, sendCommand, sendBytes, sendWritten, sendResponse, sendAttempts,
               sendReads, sendChunks, finalResponse, spc, nativeReturn, inFlight, promise,
               hasPermission, permissionRequestedDevices, autoRequestPermissions, unanswered,
               moduleUnanswered, targetHasPermission, permissionGranted, hpc>>

(***************************************************************************)
(* executeDeviceCommunication and communicateWithAbbottDevice.             *)
(***************************************************************************)
\* step 2: requestPermission; a denial throws into the catch
EStart ==
  /\ mode = "execComm" /\ FlowIdle
  /\ \E rej \in Rejects, granted \in BOOLEAN :
       fpc' = IF ~rej /\ granted THEN "e_open" ELSE "e_catch"
  /\ flowOpened' = FALSE
  /\ closeCalls' = 0
  /\ closeEff' = 0
  /\ NoDriver
  /\ UNCHANGED <<mode, isHID, mayReject, callbackMayThrow, activeConnections, claimedInterfaces,
               liveConns, opens, connectedDevicePath, capturedPath, batch, processedRecords,
               ridx, rpc, textInput, driverParsed, appParsed, checksumWarned, tpc,
               frameOpcode, framePayload, frameCommand, hidFrame, textFrame, appFrame, bpc,
               sendEnv, sendCommand, sendBytes, sendWritten, sendResponse, sendAttempts,
               sendReads, sendChunks, finalResponse, spc, nativeReturn, inFlight, promise,
               hasPermission, permissionRequestedDevices, autoRequestPermissions, unanswered,
               moduleUnanswered, targetHasPermission, permissionGranted, hpc>>

\* step 3: openDevice
EOpen ==
  /\ mode = "execComm" /\ fpc = "e_open"
  /\ opens < MaxOpens
  /\ \E rej \in Rejects, osOk \in BOOLEAN :
       LET connected == ~rej /\ osOk IN
       /\ IF connected THEN openDevice ELSE UNCHANGED nativeVars
       /\ flowOpened' = connected
       /\ fpc' = IF connected THEN "e_claim" ELSE "e_catch"
  /\ UNCHANGED <<mode, isHID, mayReject, callbackMayThrow, deviceInfo, isConnected, deviceName,
               isInitialized, op, dpc, ret, i, attempts, bytesWritten, records, okOps,
               triedOps, exhausted, initWrites, initReads, lastData, lastWire, opIO,
               readyAtCall, textCmds, textFailed, lateCmd, connectOpened, sessionCloses,
               disconnected, redundantClose, lastReadEmpty, connectedDevicePath, capturedPath,
               closeCalls, closeEff, batch, processedRecords, ridx, rpc, serialResponse,
               wakeUp, deviceDate, timeSync, cbThrewAt, textInput, driverParsed, appParsed,
               checksumWarned, tpc, frameOpcode, framePayload, frameCommand, hidFrame,
               textFrame, appFrame, bpc, sendEnv, sendCommand, sendBytes, sendWritten,
               sendResponse, sendAttempts, sendReads, sendChunks, finalResponse, spc,
               nativeReturn, inFlight, promise, hasPermission, permissionRequestedDevices,
               autoRequestPermissions, unanswered, moduleUnanswered, targetHasPermission,
               permissionGranted, hpc>>

\* step 4: claimInterface
EClaim ==
  /\ mode = "execComm" /\ fpc = "e_claim"
  /\ \E rej \in Rejects, osOk \in BOOLEAN :
       /\ IF rej THEN UNCHANGED nativeVars ELSE claimInterface(osOk)
       /\ fpc' = IF ~rej /\ claimInterfaceResult(osOk) THEN "e_comm" ELSE "e_catch"
  /\ UNCHANGED <<mode, isHID, mayReject, callbackMayThrow, deviceInfo, isConnected, deviceName,
               isInitialized, op, dpc, ret, i, attempts, bytesWritten, records, okOps,
               triedOps, exhausted, initWrites, initReads, lastData, lastWire, opIO,
               readyAtCall, textCmds, textFailed, lateCmd, connectOpened, sessionCloses,
               disconnected, redundantClose, lastReadEmpty, connectedDevicePath, capturedPath,
               flowOpened, closeCalls, closeEff, batch, processedRecords, ridx, rpc,
               serialResponse, wakeUp, deviceDate, timeSync, cbThrewAt, textInput,
               driverParsed, appParsed, checksumWarned, tpc, frameOpcode, framePayload,
               frameCommand, hidFrame, textFrame, appFrame, bpc, sendEnv, sendCommand,
               sendBytes, sendWritten, sendResponse, sendAttempts, sendReads, sendChunks,
               finalResponse, spc, nativeReturn, inFlight, promise, hasPermission,
               permissionRequestedDevices, autoRequestPermissions, unanswered,
               moduleUnanswered, targetHasPermission, permissionGranted, hpc>>

\* step 5: communicateWithAbbottDevice creates a driver and calls connect
ECommunicate ==
  /\ mode = "execComm" /\ fpc = "e_comm"
  /\ BeginConnect(TRUE)
  /\ fpc' = "e_connect"
  /\ UNCHANGED <<mode, isHID, mayReject, callbackMayThrow, activeConnections, claimedInterfaces,
               liveConns, opens, connectedDevicePath, capturedPath, flowOpened, closeCalls,
               closeEff, batch, processedRecords, ridx, rpc, textInput, driverParsed,
               appParsed, checksumWarned, tpc, frameOpcode, framePayload, frameCommand,
               hidFrame, textFrame, appFrame, bpc, sendEnv, sendCommand, sendBytes,
               sendWritten, sendResponse, sendAttempts, sendReads, sendChunks, finalResponse,
               spc, nativeReturn, inFlight, promise, hasPermission,
               permissionRequestedDevices, autoRequestPermissions, unanswered,
               moduleUnanswered, targetHasPermission, permissionGranted, hpc>>

EAfterConnect ==
  /\ mode = "execComm" /\ fpc = "e_connect" /\ dpc = "done"
  /\ IF ret = "ok"
     THEN /\ BeginGetDeviceInfo
          /\ fpc' = "e_info"
     ELSE /\ fpc' = "e_catch"
          /\ UNCHANGED <<callVars, initObs, wireObs, opIO, readyAtCall, textCmds,
                         textFailed, lateCmd, connectOpened, lastReadEmpty,
                         serialResponse, wakeUp,
                         deviceDate, timeSync, cbThrewAt>>
  /\ UNCHANGED <<mode, isHID, mayReject, callbackMayThrow, activeConnections, claimedInterfaces,
               liveConns, opens, deviceInfo, isConnected, deviceName, isInitialized,
               sessionCloses, disconnected, redundantClose, connectedDevicePath, capturedPath,
               flowOpened, closeCalls, closeEff, batch, processedRecords, ridx, rpc,
               textInput, driverParsed, appParsed, checksumWarned, tpc, frameOpcode,
               framePayload, frameCommand, hidFrame, textFrame, appFrame, bpc, sendEnv,
               sendCommand, sendBytes, sendWritten, sendResponse, sendAttempts, sendReads,
               sendChunks, finalResponse, spc, nativeReturn, inFlight, promise, hasPermission,
               permissionRequestedDevices, autoRequestPermissions, unanswered,
               moduleUnanswered, targetHasPermission, permissionGranted, hpc>>

EAfterInfo ==
  /\ mode = "execComm" /\ fpc = "e_info" /\ dpc = "done"
  /\ IF ret = "ok"
     THEN /\ BeginFetchData
          /\ fpc' = "e_fetch"
     ELSE /\ fpc' = "e_catch"
          /\ UNCHANGED <<callVars, initObs, wireObs, opIO, readyAtCall, textCmds,
                         textFailed, lateCmd, connectOpened, lastReadEmpty,
                         serialResponse, wakeUp,
                         deviceDate, timeSync, cbThrewAt>>
  /\ UNCHANGED <<mode, isHID, mayReject, callbackMayThrow, activeConnections, claimedInterfaces,
               liveConns, opens, deviceInfo, isConnected, deviceName, isInitialized,
               sessionCloses, disconnected, redundantClose, connectedDevicePath, capturedPath,
               flowOpened, closeCalls, closeEff, batch, processedRecords, ridx, rpc,
               textInput, driverParsed, appParsed, checksumWarned, tpc, frameOpcode,
               framePayload, frameCommand, hidFrame, textFrame, appFrame, bpc, sendEnv,
               sendCommand, sendBytes, sendWritten, sendResponse, sendAttempts, sendReads,
               sendChunks, finalResponse, spc, nativeReturn, inFlight, promise, hasPermission,
               permissionRequestedDevices, autoRequestPermissions, unanswered,
               moduleUnanswered, targetHasPermission, permissionGranted, hpc>>

\* fetchData returned: processRecords and uploadData touch no transport,
\* then disconnect
EAfterFetch ==
  /\ mode = "execComm" /\ fpc = "e_fetch" /\ dpc = "done"
  /\ IF ret = "ok"
     THEN /\ BeginDisconnect
          /\ fpc' = "e_disc"
     ELSE /\ fpc' = "e_catch"
          /\ UNCHANGED <<callVars, initObs, wireObs, opIO, readyAtCall, textCmds,
                         textFailed, lateCmd, connectOpened, lastReadEmpty,
                         serialResponse, wakeUp,
                         deviceDate, timeSync, cbThrewAt>>
  /\ UNCHANGED <<mode, isHID, mayReject, callbackMayThrow, activeConnections, claimedInterfaces,
               liveConns, opens, deviceInfo, isConnected, deviceName, isInitialized,
               sessionCloses, disconnected, redundantClose, connectedDevicePath, capturedPath,
               flowOpened, closeCalls, closeEff, batch, processedRecords, ridx, rpc,
               textInput, driverParsed, appParsed, checksumWarned, tpc, frameOpcode,
               framePayload, frameCommand, hidFrame, textFrame, appFrame, bpc, sendEnv,
               sendCommand, sendBytes, sendWritten, sendResponse, sendAttempts, sendReads,
               sendChunks, finalResponse, spc, nativeReturn, inFlight, promise, hasPermission,
               permissionRequestedDevices, autoRequestPermissions, unanswered,
               moduleUnanswered, targetHasPermission, permissionGranted, hpc>>

EAfterDisconnect ==
  /\ mode = "execComm" /\ fpc = "e_disc" /\ dpc = "done"
  /\ fpc' = IF ret = "ok" THEN "e_close" ELSE "e_catch"
  /\ UNCHANGED <<mode, isHID, mayReject, callbackMayThrow, activeConnections, claimedInterfaces,
               liveConns, opens, deviceInfo, isConnected, deviceName, isInitialized, op, dpc,
               ret, i, attempts, bytesWritten, records, okOps, triedOps, exhausted,
               initWrites, initReads, lastData, lastWire, opIO, readyAtCall, textCmds,
               textFailed, lateCmd, connectOpened, sessionCloses, disconnected,
               redundantClose, lastReadEmpty, connectedDevicePath, capturedPath, flowOpened,
               closeCalls, closeEff, batch, processedRecords, ridx, rpc, serialResponse,
               wakeUp, deviceDate, timeSync, cbThrewAt, textInput, driverParsed, appParsed,
               checksumWarned, tpc, frameOpcode, framePayload, frameCommand, hidFrame,
               textFrame, appFrame, bpc, sendEnv, sendCommand, sendBytes, sendWritten,
               sendResponse, sendAttempts, sendReads, sendChunks, finalResponse, spc,
               nativeReturn, inFlight, promise, hasPermission, permissionRequestedDevices,
               autoRequestPermissions, unanswered, moduleUnanswered, targetHasPermission,
               permissionGranted, hpc>>

\* step 6: closeDevice on the normal path
EClose ==
  /\ mode = "execComm" /\ fpc = "e_close"
  /\ \E rej \in Rejects :
       /\ IF rej THEN UNCHANGED nativeVars ELSE closeDevice
       /\ closeEff' = IF ~rej /\ closeDeviceResult THEN closeEff + 1 ELSE closeEff
       /\ fpc' = IF rej THEN "e_catch" ELSE "end"
  /\ closeCalls' = closeCalls + 1
  /\ UNCHANGED <<mode, isHID, mayReject, callbackMayThrow, deviceInfo, isConnected, deviceName,
               isInitialized, op, dpc, ret, i, attempts, bytesWritten, records, okOps,
               triedOps, exhausted, initWrites, initReads, lastData, lastWire, opIO,
               readyAtCall, textCmds, textFailed, lateCmd, connectOpened, sessionCloses,
               disconnected, redundantClose, lastReadEmpty, connectedDevicePath, capturedPath,
               flowOpened, batch, processedRecords, ridx, rpc, serialResponse, wakeUp,
               deviceDate, timeSync, cbThrewAt, textInput, driverParsed, appParsed,
               checksumWarned, tpc, frameOpcode, framePayload, frameCommand, hidFrame,
               textFrame, appFrame, bpc, sendEnv, sendCommand, sendBytes, sendWritten,
               sendResponse, sendAttempts, sendReads, sendChunks, finalResponse, spc,
               nativeReturn, inFlight, promise, hasPermission, permissionRequestedDevices,
               autoRequestPermissions, unanswered, moduleUnanswered, targetHasPermission,
               permissionGranted, hpc>>

\* faulty variant of ECatch: the error is rethrown without closing
ECatch_noClose ==
  /\ mode = "execComm" /\ fpc = "e_catch"
  /\ fpc' = "end"
  /\ UNCHANGED <<mode, isHID, mayReject, callbackMayThrow, activeConnections, claimedInterfaces,
               liveConns, opens, deviceInfo, isConnected, deviceName, isInitialized, op, dpc,
               ret, i, attempts, bytesWritten, records, okOps, triedOps, exhausted,
               initWrites, initReads, lastData, lastWire, opIO, readyAtCall, textCmds,
               textFailed, lateCmd, connectOpened, sessionCloses, disconnected,
               redundantClose, lastReadEmpty, connectedDevicePath, capturedPath, flowOpened,
               closeCalls, closeEff, batch, processedRecords, ridx, rpc, serialResponse,
               wakeUp, deviceDate, timeSync, cbThrewAt, textInput, driverParsed, appParsed,
               checksumWarned, tpc, frameOpcode, framePayload, frameCommand, hidFrame,
               textFrame, appFrame, bpc, sendEnv, sendCommand, sendBytes, sendWritten,
               sendResponse, sendAttempts, sendReads, sendChunks, finalResponse, spc,
               nativeReturn, inFlight, promise, hasPermission, permissionRequestedDevices,
               autoRequestPermissions, unanswered, moduleUnanswered, targetHasPermission,
               permissionGranted, hpc>>

\* the catch: closeDevice in a try of its own, then the error is rethrown
ECatch ==
  /\ mode = "execComm" /\ fpc = "e_catch"
  /\ \E rej \in Rejects :
       /\ IF rej THEN UNCHANGED nativeVars ELSE closeDevice
       /\ closeEff' = IF ~rej /\ closeDeviceResult THEN closeEff + 1 ELSE closeEff
  /\ closeCalls' = closeCalls + 1
  /\ fpc' = "end"
  /\ UNCHANGED <<mode, isHID, mayReject, callbackMayThrow, deviceInfo, isConnected, deviceName,
               isInitialized, op, dpc, ret, i, attempts, bytesWritten, records, okOps,
               triedOps, exhausted, initWrites, initReads, lastData, lastWire, opIO,
               readyAtCall, textCmds, textFailed, lateCmd, connectOpened, sessionCloses,
               disconnected, redundantClose, lastReadEmpty, connectedDevicePath, capturedPath,
               flowOpened, batch, processedRecords, ridx, rpc, serialResponse, wakeUp,
               deviceDate, timeSync, cbThrewAt, textInput, driverParsed, appParsed,
               checksumWarned, tpc, frameOpcode, framePayload, frameCommand, hidFrame,
               textFrame, appFrame, bpc, sendEnv, sendCommand, sendBytes, sendWritten,
               sendResponse, sendAttempts, sendReads, sendChunks, finalResponse, spc,
               nativeReturn, inFlight, promise, hasPermission, permissionRequestedDevices,
               autoRequestPermissions, unanswered, moduleUnanswered, targetHasPermission,
               permissionGranted, hpc>>

(***************************************************************************)
(* Specification.                                                          *)
(***************************************************************************)
Next ==
  \/ ConnectOpen
  \/ ConnectClaim
  \/ WakeUpWrite
  \/ WakeUpRead
  \/ InitWrite
  \/ InitRead
  \/ VerifyConnection
  \/ GetSerialNumber
  \/ GetDate
  \/ GetTime
  \/ FetchWrite
  \/ FetchRead
  \/ Disconnect
  \/ ApiConnect
  \/ ApiGetDeviceInfo
  \/ ApiFetchData
  \/ ApiDisconnect
  \/ HStart
  \/ HOpen
  \/ HClaim
  \/ HCloseUnclaimed
  \/ HCommunicate
  \/ HAfterConnect
  \/ HAfterInfo
  \/ HAfterDisconnect
  \/ HClose
  \/ HCatch
  \/ EStart
  \/ EOpen
  \/ EClaim
  \/ ECommunicate
  \/ EAfterConnect
  \/ EAfterInfo
  \/ EAfterFetch
  \/ EAfterDisconnect
  \/ EClose
  \/ ECatch

Spec == Init /\ [][Next]_vars

(***************************************************************************)
(* A caller that hands the driver progress callbacks that may throw.       *)
(***************************************************************************)
InitCallback ==
  /\ mode = "api"
  /\ isHID = FALSE
  /\ mayReject = FALSE
  /\ callbackMayThrow = TRUE
  /\ deviceInfo = Null
  /\ SessionFresh
  /\ RecordsIdle
  /\ TextIdle
  /\ FramesIdle
  /\ SendIdle
  /\ NativeIdle
  /\ PipeIdle
  /\ PermissionIdle

NextCallback ==
  \/ ConnectOpen
  \/ ConnectClaim
  \/ WakeUpWrite
  \/ WakeUpRead
  \/ InitWrite
  \/ InitRead
  \/ VerifyConnection
  \/ GetSerialNumber
  \/ GetDate
  \/ GetTime
  \/ FetchWrite
  \/ FetchRead
  \/ Disconnect
  \/ ApiConnect
  \/ ApiGetDeviceInfo
  \/ ApiFetchData
  \/ ApiDisconnect

SpecCallback == InitCallback /\ [][NextCallback]_vars
(***************************************************************************)
(* The native module called in any order on one device name.               *)
(***************************************************************************)
InitNative ==
  /\ mode = "native"
  /\ isHID \in BOOLEAN
  /\ mayReject = FALSE
  /\ callbackMayThrow = FALSE
  /\ deviceInfo = Null
  /\ SessionFresh
  /\ RecordsIdle
  /\ TextIdle
  /\ FramesIdle
  /\ SendIdle
  /\ NativeIdle
  /\ PipeIdle
  /\ PermissionIdle

\* AsyncFunction("openDevice"): usbManager.openDevice may return null
NativeOpenDevice ==
  /\ mode = "native"
  /\ opens < MaxOpens
  /\ \E osOk \in BOOLEAN :
       /\ IF osOk THEN openDevice ELSE UNCHANGED nativeVars
       /\ nativeReturn' = [call |-> "openDevice", ok |-> osOk]
  /\ UNCHANGED <<mode, isHID, mayReject, callbackMayThrow, deviceInfo, isConnected, deviceName,
               isInitialized, op, dpc, ret, i, attempts, bytesWritten, records, okOps,
               triedOps, exhausted, initWrites, initReads, lastData, lastWire, opIO,
               readyAtCall, textCmds, textFailed, lateCmd, connectOpened, sessionCloses,
               disconnected, redundantClose, lastReadEmpty, fpc, connectedDevicePath,
               capturedPath, flowOpened, closeCalls, closeEff, batch, processedRecords, ridx,
               rpc, serialResponse, wakeUp, deviceDate, timeSync, cbThrewAt, textInput,
               driverParsed, appParsed, checksumWarned, tpc, frameOpcode, framePayload,
               frameCommand, hidFrame, textFrame, appFrame, bpc, sendEnv, sendCommand,
               sendBytes, sendWritten, sendResponse, sendAttempts, sendReads, sendChunks,
               finalResponse, spc, inFlight, promise, hasPermission,
               permissionRequestedDevices, autoRequestPermissions, unanswered,
               moduleUnanswered, targetHasPermission, permissionGranted, hpc>>

NativeCloseDevice ==
  /\ mode = "native"
  /\ closeDevice
  /\ nativeReturn' = [call |-> "closeDevice", ok |-> closeDeviceResult]
  /\ UNCHANGED <<mode, isHID, mayReject, callbackMayThrow, deviceInfo, isConnected, deviceName,
               isInitialized, op, dpc, ret, i, attempts, bytesWritten, records, okOps,
               triedOps, exhausted, initWrites, initReads, lastData, lastWire, opIO,
               readyAtCall, textCmds, textFailed, lateCmd, connectOpened, sessionCloses,
               disconnected, redundantClose, lastReadEmpty, fpc, connectedDevicePath,
               capturedPath, flowOpened, closeCalls, closeEff, batch, processedRecords, ridx,
               rpc, serialResponse, wakeUp, deviceDate, timeSync, cbThrewAt, textInput,
               driverParsed, appParsed, checksumWarned, tpc, frameOpcode, framePayload,
               frameCommand, hidFrame, textFrame, appFrame, bpc, sendEnv, sendCommand,
               sendBytes, sendWritten, sendResponse, sendAttempts, sendReads, sendChunks,
               finalResponse, spc, inFlight, promise, hasPermission,
               permissionRequestedDevices, autoRequestPermissions, unanswered,
               moduleUnanswered, targetHasPermission, permissionGranted, hpc>>

NativeClaimInterface ==
  /\ mode = "native"
  /\ claimedInterfaces # NoList => Len(claimedInterfaces) < MaxClaims
  /\ \E osOk \in BOOLEAN :
       /\ claimInterface(osOk)
       /\ nativeReturn' = [call |-> "claimInterface", ok |-> claimInterfaceResult(osOk)]
  /\ UNCHANGED <<mode, isHID, mayReject, callbackMayThrow, deviceInfo, isConnected, deviceName,
               isInitialized, op, dpc, ret, i, attempts, bytesWritten, records, okOps,
               triedOps, exhausted, initWrites, initReads, lastData, lastWire, opIO,
               readyAtCall, textCmds, textFailed, lateCmd, connectOpened, sessionCloses,
               disconnected, redundantClose, lastReadEmpty, fpc, connectedDevicePath,
               capturedPath, flowOpened, closeCalls, closeEff, batch, processedRecords, ridx,
               rpc, serialResponse, wakeUp, deviceDate, timeSync, cbThrewAt, textInput,
               driverParsed, appParsed, checksumWarned, tpc, frameOpcode, framePayload,
               frameCommand, hidFrame, textFrame, appFrame, bpc, sendEnv, sendCommand,
               sendBytes, sendWritten, sendResponse, sendAttempts, sendReads, sendChunks,
               finalResponse, spc, inFlight, promise, hasPermission,
               permissionRequestedDevices, autoRequestPermissions, unanswered,
               moduleUnanswered, targetHasPermission, permissionGranted, hpc>>

NativeReleaseInterface ==
  /\ mode = "native"
  /\ \E osOk \in BOOLEAN :
       /\ releaseInterface(osOk)
       /\ nativeReturn' = [call |-> "releaseInterface", ok |-> releaseInterfaceResult(osOk)]
  /\ UNCHANGED <<mode, isHID, mayReject, callbackMayThrow, deviceInfo, isConnected, deviceName,
               isInitialized, op, dpc, ret, i, attempts, bytesWritten, records, okOps,
               triedOps, exhausted, initWrites, initReads, lastData, lastWire, opIO,
               readyAtCall, textCmds, textFailed, lateCmd, connectOpened, sessionCloses,
               disconnected, redundantClose, lastReadEmpty, fpc, connectedDevicePath,
               capturedPath, flowOpened, closeCalls, closeEff, batch, processedRecords, ridx,
               rpc, serialResponse, wakeUp, deviceDate, timeSync, cbThrewAt, textInput,
               driverParsed, appParsed, checksumWarned, tpc, frameOpcode, framePayload,
               frameCommand, hidFrame, textFrame, appFrame, bpc, sendEnv, sendCommand,
               sendBytes, sendWritten, sendResponse, sendAttempts, sendReads, sendChunks,
               finalResponse, spc, inFlight, promise, hasPermission,
               permissionRequestedDevices, autoRequestPermissions, unanswered,
               moduleUnanswered, targetHasPermission, permissionGranted, hpc>>

\* AsyncFunction("writeData"): failed is the case of no connection, of a
\* transfer that times out or errs, of a claim the system refuses
NativeWriteData ==
  /\ mode = "native"
  /\ claimedInterfaces # NoList => Len(claimedInterfaces) < MaxClaims
  /\ \E data \in NativeDatas, xfer \in Xfers, claimOk \in BOOLEAN :
       /\ writeData(data, claimOk)
       /\ nativeReturn' = [call |-> "writeData",
                          count |-> writeDataResult(data, xfer, claimOk),
                          failed |-> activeConnections = 0 \/ xfer = "err"]
  /\ UNCHANGED <<mode, isHID, mayReject, callbackMayThrow, deviceInfo, isConnected, deviceName,
               isInitialized, op, dpc, ret, i, attempts, bytesWritten, records, okOps,
               triedOps, exhausted, initWrites, initReads, opIO, readyAtCall, textCmds,
               textFailed, lateCmd, connectOpened, sessionCloses, disconnected,
               redundantClose, lastReadEmpty, fpc, connectedDevicePath, capturedPath,
               flowOpened, closeCalls, closeEff, batch, processedRecords, ridx, rpc,
               serialResponse, wakeUp, deviceDate, timeSync, cbThrewAt, textInput,
               driverParsed, appParsed, checksumWarned, tpc, frameOpcode, framePayload,
               frameCommand, hidFrame, textFrame, appFrame, bpc, sendEnv, sendCommand,
               sendBytes, sendWritten, sendResponse, sendAttempts, sendReads, sendChunks,
               finalResponse, spc, inFlight, promise, hasPermission,
               permissionRequestedDevices, autoRequestPermissions, unanswered,
               moduleUnanswered, targetHasPermission, permissionGranted, hpc>>

\* AsyncFunction("readData"): a transfer that times out or errs brings
\* bytesRead <= 0 and the call returns an empty list
NativeReadData ==
  /\ mode = "native"
  /\ \E bytes \in ReadBytes, xfer \in Xfers :
       nativeReturn' = [call |-> "readData",
                        bytes |-> readDataResult(IF xfer = "ok" THEN bytes ELSE <<>>),
                        failed |-> activeConnections = 0 \/ xfer = "err"]
  /\ UNCHANGED <<mode, isHID, mayReject, callbackMayThrow, activeConnections, claimedInterfaces,
               liveConns, opens, deviceInfo, isConnected, deviceName, isInitialized, op, dpc,
               ret, i, attempts, bytesWritten, records, okOps, triedOps, exhausted,
               initWrites, initReads, lastData, lastWire, opIO, readyAtCall, textCmds,
               textFailed, lateCmd, connectOpened, sessionCloses, disconnected,
               redundantClose, lastReadEmpty, fpc, connectedDevicePath, capturedPath,
               flowOpened, closeCalls, closeEff, batch, processedRecords, ridx, rpc,
               serialResponse, wakeUp, deviceDate, timeSync, cbThrewAt, textInput,
               driverParsed, appParsed, checksumWarned, tpc, frameOpcode, framePayload,
               frameCommand, hidFrame, textFrame, appFrame, bpc, sendEnv, sendCommand,
               sendBytes, sendWritten, sendResponse, sendAttempts, sendReads, sendChunks,
               finalResponse, spc, inFlight, promise, hasPermission,
               permissionRequestedDevices, autoRequestPermissions, unanswered,
               moduleUnanswered, targetHasPermission, permissionGranted, hpc>>

NativeOnDestroy ==
  /\ mode = "native"
  /\ OnDestroy
  /\ nativeReturn' = [call |-> "OnDestroy"]
  /\ UNCHANGED <<mode, isHID, mayReject, callbackMayThrow, deviceInfo, isConnected, deviceName,
               isInitialized, op, dpc, ret, i, attempts, bytesWritten, records, okOps,
               triedOps, exhausted, initWrites, initReads, lastData, lastWire, opIO,
               readyAtCall, textCmds, textFailed, lateCmd, connectOpened, sessionCloses,
               disconnected, redundantClose, lastReadEmpty, fpc, connectedDevicePath,
               capturedPath, flowOpened, closeCalls, closeEff, batch, processedRecords, ridx,
               rpc, serialResponse, wakeUp, deviceDate, timeSync, cbThrewAt, textInput,
               driverParsed, appParsed, checksumWarned, tpc, frameOpcode, framePayload,
               frameCommand, hidFrame, textFrame, appFrame, bpc, sendEnv, sendCommand,
               sendBytes, sendWritten, sendResponse, sendAttempts, sendReads, sendChunks,
               finalResponse, spc, inFlight, promise, hasPermission,
               permissionRequestedDevices, autoRequestPermissions, unanswered,
               moduleUnanswered, targetHasPermission, permissionGranted, hpc>>

NextNative ==
  \/ NativeOpenDevice
  \/ NativeCloseDevice
  \/ NativeClaimInterface
  \/ NativeReleaseInterface
  \/ NativeWriteData
  \/ NativeReadData
  \/ NativeOnDestroy

SpecNative == InitNative /\ [][NextNative]_vars

(***************************************************************************)
(* The driver's calls to the injected usbModule, each in three steps: the  *)
(* driver issues the call, the module finishes it and settles the promise, *)
(* the driver resumes after its await.  dpc names the call site.           *)
(***************************************************************************)
Sites == {"open", "claim", "wakeWrite", "wakeRead", "initWrite", "initRead", "verify",
          "serial", "date", "time", "textWrite", "textRead", "close"}

\* the usbModule function called at a site
CallAt(site) ==
  CASE site = "open" -> "openDevice"
    [] site = "claim" -> "claimInterface"
    [] site \in {"wakeWrite", "initWrite", "verify", "textWrite"} -> "writeData"
    [] site \in {"wakeRead", "initRead", "textRead"} -> "readData"
    [] site \in {"serial", "date", "time"} -> "sendTextCommand"
    [] OTHER -> "closeDevice"

\* how a promise settles: the value of a success, the value of a failure
\* (false, a negative count, an empty list or text), a rejection
Settlements == IF mayReject THEN {"ok", "fail", "reject"} ELSE {"ok", "fail"}

\* faulty variant of Awaited: the call is not awaited
Awaited_missing(p) == p # "none"

\* `await p`: the driver goes on once p has settled
Awaited(p) == p \in {"ok", "fail", "reject"}

InitPipe ==
  /\ mode = "pipe"
  /\ isHID = FALSE
  /\ mayReject \in BOOLEAN
  /\ callbackMayThrow = FALSE
  /\ deviceInfo = Null
  /\ SessionFresh
  /\ RecordsIdle
  /\ TextIdle
  /\ FramesIdle
  /\ SendIdle
  /\ NativeIdle
  /\ PipeIdle
  /\ PermissionIdle

\* the caller starts a driver operation once the previous one has returned.
\* getDeviceInfo reads this.deviceInfo.deviceName (a TypeError on null),
\* requestTextResponse throws when the protocol is not initialized,
\* disconnect closes only when deviceInfo is set
PipeCall ==
  /\ mode = "pipe"
  /\ dpc \in {"idle", "done"}
  /\ \E o \in {"connect", "getDeviceInfo", "fetchData", "disconnect"} :
       LET first == CASE o = "connect" -> "open"
                      [] o = "getDeviceInfo" -> IF deviceInfo = Null THEN "done" ELSE "serial"
                      [] o = "fetchData" -> IF isInitialized THEN "textWrite" ELSE "done"
                      [] OTHER -> IF deviceInfo = Null THEN "done" ELSE "close"
       IN
       /\ op' = o
       /\ dpc' = first
       /\ ret' = IF first # "done" THEN "none" ELSE IF o = "disconnect" THEN "ok" ELSE "throw"
       /\ deviceInfo' = IF o = "connect" THEN Dev ELSE deviceInfo
       /\ isConnected' = IF o = "disconnect" /\ first = "done" THEN FALSE ELSE isConnected
  /\ i' = 0
  /\ attempts' = 0
  /\ UNCHANGED <<mode, isHID, mayReject, callbackMayThrow, activeConnections, claimedInterfaces,
               liveConns, opens, deviceName, isInitialized, bytesWritten, records, okOps,
               triedOps, exhausted, initWrites, initReads, lastData, lastWire, opIO,
               readyAtCall, textCmds, textFailed, lateCmd, connectOpened, sessionCloses,
               disconnected, redundantClose, lastReadEmpty, fpc, connectedDevicePath,
               capturedPath, flowOpened, closeCalls, closeEff, batch, processedRecords, ridx,
               rpc, serialResponse, wakeUp, deviceDate, timeSync, cbThrewAt, textInput,
               driverParsed, appParsed, checksumWarned, tpc, frameOpcode, framePayload,
               frameCommand, hidFrame, textFrame, appFrame, bpc, sendEnv, sendCommand,
               sendBytes, sendWritten, sendResponse, sendAttempts, sendReads, sendChunks,
               finalResponse, spc, nativeReturn, inFlight, promise, hasPermission,
               permissionRequestedDevices, autoRequestPermissions, unanswered,
               moduleUnanswered, targetHasPermission, permissionGranted, hpc>>

\* the driver reaches the call of a site: the call goes to the module
PipeIssue ==
  /\ mode = "pipe"
  /\ dpc \in Sites
  /\ promise = "none"
  /\ inFlight' = Append(inFlight, CallAt(dpc))
  /\ promise' = "pending"
  /\ attempts' = IF dpc = "initWrite" THEN attempts + 1 ELSE attempts
  /\ deviceName' = IF dpc = "wakeWrite" THEN Dev ELSE deviceName
  /\ UNCHANGED <<mode, isHID, mayReject, callbackMayThrow, activeConnections, claimedInterfaces,
               liveConns, opens, deviceInfo, isConnected, isInitialized, op, dpc, ret, i,
               bytesWritten, records, okOps, triedOps, exhausted, initWrites, initReads,
               lastData, lastWire, opIO, readyAtCall, textCmds, textFailed, lateCmd,
               connectOpened, sessionCloses, disconnected, redundantClose, lastReadEmpty, fpc,
               connectedDevicePath, capturedPath, flowOpened, closeCalls, closeEff, batch,
               processedRecords, ridx, rpc, serialResponse, wakeUp, deviceDate, timeSync,
               cbThrewAt, textInput, driverParsed, appParsed, checksumWarned, tpc,
               frameOpcode, framePayload, frameCommand, hidFrame, textFrame, appFrame, bpc,
               sendEnv, sendCommand, sendBytes, sendWritten, sendResponse, sendAttempts,
               sendReads, sendChunks, finalResponse, spc, nativeReturn, hasPermission,
               permissionRequestedDevices, autoRequestPermissions, unanswered,
               moduleUnanswered, targetHasPermission, permissionGranted, hpc>>

\* the module finishes the oldest call in flight and settles its promise
PipeSettle ==
  /\ mode = "pipe"
  /\ inFlight # <<>>
  /\ \E r \in Settlements :
       promise' = IF promise = "pending" THEN r ELSE promise
  /\ inFlight' = Tail(inFlight)
  /\ UNCHANGED <<mode, isHID, mayReject, callbackMayThrow, activeConnections, claimedInterfaces,
               liveConns, opens, deviceInfo, isConnected, deviceName, isInitialized, op, dpc,
               ret, i, attempts, bytesWritten, records, okOps, triedOps, exhausted,
               initWrites, initReads, lastData, lastWire, opIO, readyAtCall, textCmds,
               textFailed, lateCmd, connectOpened, sessionCloses, disconnected,
               redundantClose, lastReadEmpty, fpc, connectedDevicePath, capturedPath,
               flowOpened, closeCalls, closeEff, batch, processedRecords, ridx, rpc,
               serialResponse, wakeUp, deviceDate, timeSync, cbThrewAt, textInput,
               driverParsed, appParsed, checksumWarned, tpc, frameOpcode, framePayload,
               frameCommand, hidFrame, textFrame, appFrame, bpc, sendEnv, sendCommand,
               sendBytes, sendWritten, sendResponse, sendAttempts, sendReads, sendChunks,
               finalResponse, spc, nativeReturn, hasPermission, permissionRequestedDevices,
               autoRequestPermissions, unanswered, moduleUnanswered, targetHasPermission,
               permissionGranted, hpc>>

\* the site that follows the init command at index i (0-based)
AfterInitCommand ==
  IF i + 1 < Len(INIT_SEQUENCE) THEN "initWrite" ELSE "verify"

\* the driver resumes after the await of the call at dpc
PipeResume ==
  /\ mode = "pipe"
  /\ dpc \in Sites
  /\ Awaited(promise)
  /\ promise' = "none"
  /\ LET ok == promise = "ok"
         rej == promise = "reject"
         next ==
           CASE dpc = "open" -> IF ok THEN "claim" ELSE "done"
             [] dpc = "claim" -> IF ok THEN "wakeWrite" ELSE "done"
             [] dpc = "wakeWrite" -> IF rej THEN "initWrite" ELSE "wakeRead"
             [] dpc = "wakeRead" -> "initWrite"
             [] dpc = "initWrite" ->
                  IF ok THEN (IF INIT_SEQUENCE[i + 1] # 0 THEN "initRead" ELSE AfterInitCommand)
                  ELSE IF ~rej /\ attempts < maxAttempts THEN "initWrite" ELSE "done"
             [] dpc = "initRead" -> AfterInitCommand
             [] dpc = "serial" -> IF ok THEN "date" ELSE "done"
             [] dpc = "date" -> IF rej THEN "done" ELSE "time"
             [] dpc = "textWrite" -> IF ok THEN "textRead" ELSE "done"
             [] OTHER -> "done"
         commandDone == \/ dpc = "initRead"
                        \/ dpc = "initWrite" /\ ok /\ INIT_SEQUENCE[i + 1] = 0
         initFailed == dpc = "initWrite" /\ next = "done"
         thrown == CASE dpc \in {"verify", "time", "textRead"} -> ~ok
                     [] dpc = "close" -> rej
                     [] OTHER -> TRUE
     IN
     /\ dpc' = next
     /\ ret' = IF next # "done" THEN ret ELSE IF thrown THEN "throw" ELSE "ok"
     /\ i' = IF commandDone /\ next = "initWrite" THEN i + 1 ELSE i
     /\ attempts' = IF dpc \in {"wakeWrite", "wakeRead"} \/ commandDone THEN 0 ELSE attempts
     /\ isInitialized' = IF commandDone /\ next = "verify" THEN TRUE
                         ELSE IF initFailed THEN FALSE ELSE isInitialized
     /\ isConnected' = IF op = "connect" /\ next = "done" THEN dpc = "verify" /\ ok
                       ELSE IF dpc = "close" /\ ~rej THEN FALSE ELSE isConnected
     /\ deviceInfo' = IF dpc = "close" /\ ~rej THEN Null ELSE deviceInfo
  /\ UNCHANGED <<mode, isHID, mayReject, callbackMayThrow, activeConnections, claimedInterfaces,
               liveConns, opens, deviceName, op, bytesWritten, records, okOps, triedOps,
               exhausted, initWrites, initReads, lastData, lastWire, opIO, readyAtCall,
               textCmds, textFailed, lateCmd, connectOpened, sessionCloses, disconnected,
               redundantClose, lastReadEmpty, fpc, connectedDevicePath, capturedPath,
               flowOpened, closeCalls, closeEff, batch, processedRecords, ridx, rpc,
               serialResponse, wakeUp, deviceDate, timeSync, cbThrewAt, textInput,
               driverParsed, appParsed, checksumWarned, tpc, frameOpcode, framePayload,
               frameCommand, hidFrame, textFrame, appFrame, bpc, sendEnv, sendCommand,
               sendBytes, sendWritten, sendResponse, sendAttempts, sendReads, sendChunks,
               finalResponse, spc, nativeReturn, inFlight, hasPermission,
               permissionRequestedDevices, autoRequestPermissions, unanswered,
               moduleUnanswered, targetHasPermission, permissionGranted, hpc>>

NextPipe ==
  \/ PipeCall
  \/ PipeIssue
  \/ PipeSettle
  \/ PipeResume

SpecPipe == InitPipe /\ [][NextPipe]_vars

(***************************************************************************)
(* USB permission: UsbDeviceViewModel, the module's requestPermission and  *)
(* the permission step of handleUSBConnection, on one attached device.     *)
(***************************************************************************)
\* requestPermissionInternal(device), the set being `requested` when it runs
requestPermissionInternal(requested) ==
  /\ permissionRequestedDevices' =
       IF ~hasPermission /\ Dev \notin requested THEN requested \cup {Dev} ELSE requested
  /\ unanswered' =
       IF ~hasPermission /\ Dev \notin requested THEN unanswered + 1 ELSE unanswered

NoRequest == UNCHANGED <<permissionRequestedDevices, unanswered>>

InitPermission ==
  /\ mode = "permission"
  /\ isHID = FALSE
  /\ mayReject = FALSE
  /\ callbackMayThrow = FALSE
  /\ deviceInfo = Null
  /\ SessionFresh
  /\ RecordsIdle
  /\ TextIdle
  /\ FramesIdle
  /\ SendIdle
  /\ NativeIdle
  /\ PipeIdle
  /\ hasPermission \in BOOLEAN
  /\ ViewModelFresh

\* scanDevices(): a device without permission is asked for when automatic
\* requests are on and its name is not in the set
VmScanDevices ==
  /\ mode = "permission"
  /\ unanswered < MaxRequests
  /\ IF autoRequestPermissions /\ Dev \notin permissionRequestedDevices
     THEN requestPermissionInternal(permissionRequestedDevices)
     ELSE NoRequest
  /\ UNCHANGED <<mode, isHID, mayReject, callbackMayThrow, activeConnections, claimedInterfaces,
               liveConns, opens, deviceInfo, isConnected, deviceName, isInitialized, op, dpc,
               ret, i, attempts, bytesWritten, records, okOps, triedOps, exhausted,
               initWrites, initReads, lastData, lastWire, opIO, readyAtCall, textCmds,
               textFailed, lateCmd, connectOpened, sessionCloses, disconnected,
               redundantClose, lastReadEmpty, fpc, connectedDevicePath, capturedPath,
               flowOpened, closeCalls, closeEff, batch, processedRecords, ridx, rpc,
               serialResponse, wakeUp, deviceDate, timeSync, cbThrewAt, textInput,
               driverParsed, appParsed, checksumWarned, tpc, frameOpcode, framePayload,
               frameCommand, hidFrame, textFrame, appFrame, bpc, sendEnv, sendCommand,
               sendBytes, sendWritten, sendResponse, sendAttempts, sendReads, sendChunks,
               finalResponse, spc, nativeReturn, inFlight, promise, hasPermission,
               autoRequestPermissions, moduleUnanswered, targetHasPermission,
               permissionGranted, hpc>>

\* requestPermission(deviceInfo)
VmRequestPermission ==
  /\ mode = "permission"
  /\ unanswered < MaxRequests
  /\ requestPermissionInternal(permissionRequestedDevices)
  /\ UNCHANGED <<mode, isHID, mayReject, callbackMayThrow, activeConnections, claimedInterfaces,
               liveConns, opens, deviceInfo, isConnected, deviceName, isInitialized, op, dpc,
               ret, i, attempts, bytesWritten, records, okOps, triedOps, exhausted,
               initWrites, initReads, lastData, lastWire, opIO, readyAtCall, textCmds,
               textFailed, lateCmd, connectOpened, sessionCloses, disconnected,
               redundantClose, lastReadEmpty, fpc, connectedDevicePath, capturedPath,
               flowOpened, closeCalls, closeEff, batch, processedRecords, ridx, rpc,
               serialResponse, wakeUp, deviceDate, timeSync, cbThrewAt, textInput,
               driverParsed, appParsed, checksumWarned, tpc, frameOpcode, framePayload,
               frameCommand, hidFrame, textFrame, appFrame, bpc, sendEnv, sendCommand,
               sendBytes, sendWritten, sendResponse, sendAttempts, sendReads, sendChunks,
               finalResponse, spc, nativeReturn, inFlight, promise, hasPermission,
               autoRequestPermissions, moduleUnanswered, targetHasPermission,
               permissionGranted, hpc>>

\* getDeviceDetails(deviceInfo): without permission the request is made
\* unless the name is in the set
VmGetDeviceDetails ==
  /\ mode = "permission"
  /\ unanswered < MaxRequests
  /\ IF ~hasPermission /\ Dev \notin permissionRequestedDevices
     THEN requestPermissionInternal(permissionRequestedDevices)
     ELSE NoRequest
  /\ UNCHANGED <<mode, isHID, mayReject, callbackMayThrow, activeConnections, claimedInterfaces,
               liveConns, opens, deviceInfo, isConnected, deviceName, isInitialized, op, dpc,
               ret, i, attempts, bytesWritten, records, okOps, triedOps, exhausted,
               initWrites, initReads, lastData, lastWire, opIO, readyAtCall, textCmds,
               textFailed, lateCmd, connectOpened, sessionCloses, disconnected,
               redundantClose, lastReadEmpty, fpc, connectedDevicePath, capturedPath,
               flowOpened, closeCalls, closeEff, batch, processedRecords, ridx, rpc,
               serialResponse, wakeUp, deviceDate, timeSync, cbThrewAt, textInput,
               driverParsed, appParsed, checksumWarned, tpc, frameOpcode, framePayload,
               frameCommand, hidFrame, textFrame, appFrame, bpc, sendEnv, sendCommand,
               sendBytes, sendWritten, sendResponse, sendAttempts, sendReads, sendChunks,
               finalResponse, spc, nativeReturn, inFlight, promise, hasPermission,
               autoRequestPermissions, moduleUnanswered, targetHasPermission,
               permissionGranted, hpc>>

\* setAutoRequestPermissions(enabled): enabling clears the set and scans
VmSetAutoRequestPermissions ==
  /\ mode = "permission"
  /\ unanswered < MaxRequests
  /\ \E enabled \in BOOLEAN :
       /\ autoRequestPermissions' = enabled
       /\ IF enabled THEN requestPermissionInternal({}) ELSE NoRequest
  /\ UNCHANGED <<mode, isHID, mayReject, callbackMayThrow, activeConnections, claimedInterfaces,
               liveConns, opens, deviceInfo, isConnected, deviceName, isInitialized, op, dpc,
               ret, i, attempts, bytesWritten, records, okOps, triedOps, exhausted,
               initWrites, initReads, lastData, lastWire, opIO, readyAtCall, textCmds,
               textFailed, lateCmd, connectOpened, sessionCloses, disconnected,
               redundantClose, lastReadEmpty, fpc, connectedDevicePath, capturedPath,
               flowOpened, closeCalls, closeEff, batch, processedRecords, ridx, rpc,
               serialResponse, wakeUp, deviceDate, timeSync, cbThrewAt, textInput,
               driverParsed, appParsed, checksumWarned, tpc, frameOpcode, framePayload,
               frameCommand, hidFrame, textFrame, appFrame, bpc, sendEnv, sendCommand,
               sendBytes, sendWritten, sendResponse, sendAttempts, sendReads, sendChunks,
               finalResponse, spc, nativeReturn, inFlight, promise, hasPermission,
               moduleUnanswered, targetHasPermission, permissionGranted, hpc>>

\* clearPermissionRequests()
VmClearPermissionRequests ==
  /\ mode = "permission"
  /\ permissionRequestedDevices' = {}
  /\ UNCHANGED <<mode, isHID, mayReject, callbackMayThrow, activeConnections, claimedInterfaces,
               liveConns, opens, deviceInfo, isConnected, deviceName, isInitialized, op, dpc,
               ret, i, attempts, bytesWritten, records, okOps, triedOps, exhausted,
               initWrites, initReads, lastData, lastWire, opIO, readyAtCall, textCmds,
               textFailed, lateCmd, connectOpened, sessionCloses, disconnected,
               redundantClose, lastReadEmpty, fpc, connectedDevicePath, capturedPath,
               flowOpened, closeCalls, closeEff, batch, processedRecords, ridx, rpc,
               serialResponse, wakeUp, deviceDate, timeSync, cbThrewAt, textInput,
               driverParsed, appParsed, checksumWarned, tpc, frameOpcode, framePayload,
               frameCommand, hidFrame, textFrame, appFrame, bpc, sendEnv, sendCommand,
               sendBytes, sendWritten, sendResponse, sendAttempts, sendReads, sendChunks,
               finalResponse, spc, nativeReturn, inFlight, promise, hasPermission,
               autoRequestPermissions, unanswered, moduleUnanswered, targetHasPermission,
               permissionGranted, hpc>>

\* the user answers a request of the view model: usbPermissionReceiver
\* removes the name; when granted it scans, which finds the permission
VmPermissionResult ==
  /\ mode = "permission"
  /\ unanswered > 0
  /\ \E granted \in BOOLEAN :
       hasPermission' = (hasPermission \/ granted)
  /\ unanswered' = unanswered - 1
  /\ permissionRequestedDevices' = permissionRequestedDevices \ {Dev}
  /\ UNCHANGED <<mode, isHID, mayReject, callbackMayThrow, activeConnections, claimedInterfaces,
               liveConns, opens, deviceInfo, isConnected, deviceName, isInitialized, op, dpc,
               ret, i, attempts, bytesWritten, records, okOps, triedOps, exhausted,
               initWrites, initReads, lastData, lastWire, opIO, readyAtCall, textCmds,
               textFailed, lateCmd, connectOpened, sessionCloses, disconnected,
               redundantClose, lastReadEmpty, fpc, connectedDevicePath, capturedPath,
               flowOpened, closeCalls, closeEff, batch, processedRecords, ridx, rpc,
               serialResponse, wakeUp, deviceDate, timeSync, cbThrewAt, textInput,
               driverParsed, appParsed, checksumWarned, tpc, frameOpcode, framePayload,
               frameCommand, hidFrame, textFrame, appFrame, bpc, sendEnv, sendCommand,
               sendBytes, sendWritten, sendResponse, sendAttempts, sendReads, sendChunks,
               finalResponse, spc, nativeReturn, inFlight, promise, autoRequestPermissions,
               moduleUnanswered, targetHasPermission, permissionGranted, hpc>>

\* the value the module's requestPermission resolves to: true when the
\* device has permission, and true as well once the request has been sent
requestPermissionResult(found) ==
  IF ~found THEN FALSE ELSE IF hasPermission THEN TRUE ELSE TRUE

\* handleUSBConnection starts with the targetDevice of the app's last scan
HandleStart ==
  /\ mode = "permission"
  /\ hpc \in {"idle", "end"}
  /\ hpc' = "permission"
  /\ targetHasPermission' = hasPermission
  /\ permissionGranted' = "none"
  /\ UNCHANGED <<mode, isHID, mayReject, callbackMayThrow, activeConnections, claimedInterfaces,
               liveConns, opens, deviceInfo, isConnected, deviceName, isInitialized, op, dpc,
               ret, i, attempts, bytesWritten, records, okOps, triedOps, exhausted,
               initWrites, initReads, lastData, lastWire, opIO, readyAtCall, textCmds,
               textFailed, lateCmd, connectOpened, sessionCloses, disconnected,
               redundantClose, lastReadEmpty, fpc, connectedDevicePath, capturedPath,
               flowOpened, closeCalls, closeEff, batch, processedRecords, ridx, rpc,
               serialResponse, wakeUp, deviceDate, timeSync, cbThrewAt, textInput,
               driverParsed, appParsed, checksumWarned, tpc, frameOpcode, framePayload,
               frameCommand, hidFrame, textFrame, appFrame, bpc, sendEnv, sendCommand,
               sendBytes, sendWritten, sendResponse, sendAttempts, sendReads, sendChunks,
               finalResponse, spc, nativeReturn, inFlight, promise, hasPermission,
               permissionRequestedDevices, autoRequestPermissions, unanswered,
               moduleUnanswered>>

\* step 2: requestPermission is called when the scan saw no permission;
\* false ends the flow, true lets it go on to openDevice
HandlePermission ==
  /\ mode = "permission"
  /\ hpc = "permission"
  /\ IF targetHasPermission
     THEN /\ hpc' = "open"
          /\ UNCHANGED <<permissionGranted, moduleUnanswered>>
     ELSE /\ moduleUnanswered < MaxRequests
          /\ \E found \in BOOLEAN :
               /\ permissionGranted' = IF requestPermissionResult(found) THEN "true" ELSE "false"
               /\ moduleUnanswered' =
                    IF found /\ ~hasPermission THEN moduleUnanswered + 1 ELSE moduleUnanswered
               /\ hpc' = IF requestPermissionResult(found) THEN "open" ELSE "end"
  /\ UNCHANGED <<mode, isHID, mayReject, callbackMayThrow, activeConnections, claimedInterfaces,
               liveConns, opens, deviceInfo, isConnected, deviceName, isInitialized, op, dpc,
               ret, i, attempts, bytesWritten, records, okOps, triedOps, exhausted,
               initWrites, initReads, lastData, lastWire, opIO, readyAtCall, textCmds,
               textFailed, lateCmd, connectOpened, sessionCloses, disconnected,
               redundantClose, lastReadEmpty, fpc, connectedDevicePath, capturedPath,
               flowOpened, closeCalls, closeEff, batch, processedRecords, ridx, rpc,
               serialResponse, wakeUp, deviceDate, timeSync, cbThrewAt, textInput,
               driverParsed, appParsed, checksumWarned, tpc, frameOpcode, framePayload,
               frameCommand, hidFrame, textFrame, appFrame, bpc, sendEnv, sendCommand,
               sendBytes, sendWritten, sendResponse, sendAttempts, sendReads, sendChunks,
               finalResponse, spc, nativeReturn, inFlight, promise, hasPermission,
               permissionRequestedDevices, autoRequestPermissions, unanswered,
               targetHasPermission>>

\* step 3: openDevice, which the module refuses without permission
HandleOpenDevice ==
  /\ mode = "permission"
  /\ hpc = "open"
  /\ \E osOk \in BOOLEAN :
       IF hasPermission /\ osOk /\ opens < MaxOpens
       THEN openDevice
       ELSE UNCHANGED nativeVars
  /\ hpc' = "end"
  /\ UNCHANGED <<mode, isHID, mayReject, callbackMayThrow, deviceInfo, isConnected, deviceName,
               isInitialized, op, dpc, ret, i, attempts, bytesWritten, records, okOps,
               triedOps, exhausted, initWrites, initReads, lastData, lastWire, opIO,
               readyAtCall, textCmds, textFailed, lateCmd, connectOpened, sessionCloses,
               disconnected, redundantClose, lastReadEmpty, fpc, connectedDevicePath,
               capturedPath, flowOpened, closeCalls, closeEff, batch, processedRecords, ridx,
               rpc, serialResponse, wakeUp, deviceDate, timeSync, cbThrewAt, textInput,
               driverParsed, appParsed, checksumWarned, tpc, frameOpcode, framePayload,
               frameCommand, hidFrame, textFrame, appFrame, bpc, sendEnv, sendCommand,
               sendBytes, sendWritten, sendResponse, sendAttempts, sendReads, sendChunks,
               finalResponse, spc, nativeReturn, inFlight, promise, hasPermission,
               permissionRequestedDevices, autoRequestPermissions, unanswered,
               moduleUnanswered, targetHasPermission, permissionGranted>>

\* the user answers a request of the module; its receiver only logs
ModulePermissionResult ==
  /\ mode = "permission"
  /\ moduleUnanswered > 0
  /\ \E granted \in BOOLEAN :
       hasPermission' = (hasPermission \/ granted)
  /\ moduleUnanswered' = moduleUnanswered - 1
  /\ UNCHANGED <<mode, isHID, mayReject, callbackMayThrow, activeConnections, claimedInterfaces,
               liveConns, opens, deviceInfo, isConnected, deviceName, isInitialized, op, dpc,
               ret, i, attempts, bytesWritten, records, okOps, triedOps, exhausted,
               initWrites, initReads, lastData, lastWire, opIO, readyAtCall, textCmds,
               textFailed, lateCmd, connectOpened, sessionCloses, disconnected,
               redundantClose, lastReadEmpty, fpc, connectedDevicePath, capturedPath,
               flowOpened, closeCalls, closeEff, batch, processedRecords, ridx, rpc,
               serialResponse, wakeUp, deviceDate, timeSync, cbThrewAt, textInput,
               driverParsed, appParsed, checksumWarned, tpc, frameOpcode, framePayload,
               frameCommand, hidFrame, textFrame, appFrame, bpc, sendEnv, sendCommand,
               sendBytes, sendWritten, sendResponse, sendAttempts, sendReads, sendChunks,
               finalResponse, spc, nativeReturn, inFlight, promise,
               permissionRequestedDevices, autoRequestPermissions, unanswered,
               targetHasPermission, permissionGranted, hpc>>

NextPermission ==
  \/ VmScanDevices
  \/ VmRequestPermission
  \/ VmGetDeviceDetails
  \/ VmSetAutoRequestPermissions
  \/ VmClearPermissionRequests
  \/ VmPermissionResult
  \/ HandleStart
  \/ HandlePermission
  \/ HandleOpenDevice
  \/ ModulePermissionResult

SpecPermission == InitPermission /\ [][NextPermission]_vars

(***************************************************************************)
(* connect called again and again by a caller that owns the driver, every  *)
(* transport call returning.                                               *)
(***************************************************************************)
InitHandshake == Init /\ mode = "api"

\* the steps of a connect in progress
ConnectStep ==
  \/ ConnectOpen
  \/ ConnectClaim
  \/ WakeUpWrite
  \/ WakeUpRead
  \/ InitWrite
  \/ InitRead
  \/ VerifyConnection

NextHandshake ==
  \/ ApiConnect
  \/ ConnectStep

SpecHandshake == InitHandshake /\ [][NextHandshake]_vars

\* each promise of the usbModule settles and each delay ends
SpecHandshakeLive == SpecHandshake /\ WF_vars(ConnectStep)

(***************************************************************************)
(* processRecords, parseRecord and the per-type processors.                *)
(***************************************************************************)
\* the record parseRecord builds before the switch
BaseRecord(fields, record) ==
  [ kind |-> "base",
    type |-> parseInt(Field(fields, 0)),
    index |-> parseInt(Field(fields, 1)),
    timestamp |-> << Plus2000(parseInt(Field(fields, 4))),
                     parseInt(Field(fields, 2)), parseInt(Field(fields, 3)),
                     parseInt(Field(fields, 5)), parseInt(Field(fields, 6)),
                     OrZero(parseInt(Field(fields, 7))) >>,
    raw |-> record ]

\* null as a parse result
NoRecord == [kind |-> "null"]

\* this.deviceInfo.deviceId on a null deviceInfo is a TypeError, which the
\* try/catch of each processor turns into null
NoDeviceInfo == deviceInfo = Null

\* processGlucoseRecord: value = fields[8], control solution = fields[10] is 0
processGlucoseRecord(fields, baseRecord) ==
  LET value == Field(fields, 8)
      isControlSolution == parseInt(Field(fields, 10)) = Num(0)
      processedValue == IF value = STR_HI THEN Num(501)
                        ELSE IF value = STR_LO THEN Num(19)
                        ELSE parseInt(value)
      annotations == IF value = STR_HI THEN <<[value |-> "high", threshold |-> 500]>>
                     ELSE IF value = STR_LO THEN <<[value |-> "low", threshold |-> 20]>>
                     ELSE <<>>
  IN IF isControlSolution \/ processedValue = NaN \/ NoDeviceInfo THEN NoRecord
     ELSE [ kind |-> "glucose", base |-> baseRecord, value |-> processedValue[1],
            annotations |-> annotations ]

\* processKetoneRecord: value = fields[8] / 18, control solution = fields[9] is 0;
\* the value is kept as the fraction num/18
processKetoneRecord(fields, baseRecord) ==
  LET value == Field(fields, 8)
      isControlSolution == parseInt(Field(fields, 9)) = Num(0)
      rawValue == parseInt(value)
      times18 == IF value = STR_HI THEN Num(8 * 18 + 1) ELSE rawValue
      annotations == IF value = STR_HI THEN <<[value |-> "high", threshold |-> 8]>>
                     ELSE <<>>
  IN IF isControlSolution \/ times18 = NaN \/ NoDeviceInfo THEN NoRecord
     ELSE [ kind |-> "ketone", base |-> baseRecord, valueTimes18 |-> times18[1],
            annotations |-> annotations ]

\* processTimeChangeRecord: valid when fields[7] is 1; from = fields 8..12
processTimeChangeRecord(fields, baseRecord) ==
  LET valid == parseInt(Field(fields, 7)) = Num(1)
      fromTimestamp == << Plus2000(parseInt(Field(fields, 10))),
                          parseInt(Field(fields, 8)), parseInt(Field(fields, 9)),
                          parseInt(Field(fields, 11)), parseInt(Field(fields, 12)) >>
  IN IF ~valid \/ NoDeviceInfo THEN NoRecord
     ELSE [ kind |-> "timeChange", base |-> baseRecord,
            change |-> [from |-> fromTimestamp, to |-> baseRecord.timestamp,
                        agent |-> "manual"] ]


\* processedRecord = ...: processedRecord is declared const, so once the
\* right-hand side is evaluated the assignment throws a TypeError, which the
\* catch of parseRecord turns into null
ConstReassigned(value) == NoRecord

\* faulty variant of MIN_FIELDS: one field fewer is enough
MIN_FIELDS_oneLess == 8 - 1
MIN_FIELDS == 8

\* parseRecord(record)
parseRecord(record) ==
  LET fields == split(record) IN
  IF Len(fields) < MIN_FIELDS THEN NoRecord
  ELSE LET processedRecord == BaseRecord(fields, record)
           recordType == processedRecord.type
       IN IF recordType = Num(7)
            THEN ConstReassigned(processGlucoseRecord(fields, processedRecord))
          ELSE IF recordType = Num(9)
            THEN ConstReassigned(processKetoneRecord(fields, processedRecord))
          ELSE IF recordType = Num(6)
            THEN ConstReassigned(processTimeChangeRecord(fields, processedRecord))
          ELSE processedRecord

(***************************************************************************)
(* processRecords(records): one loop iteration per step.                   *)
(***************************************************************************)
RECURSIVE join(_)
join(fields) ==
  IF Len(fields) = 0 THEN <<>>
  ELSE IF Len(fields) = 1 THEN fields[1]
  ELSE fields[1] \o <<COMMA>> \o join(Tail(fields))

\* a line of the meter: type, index 1, 6/15/24 10:30, then fields 7..12,
\* cut to nf fields
LineOf(type, nf, f7, value, f9, f10) ==
  join(SubSeq(<< type, <<49>>, <<54>>, <<49, 53>>, <<50, 52>>, <<49, 48>>, <<51, 48>>,
                 f7, value, f9, f10, <<49, 49>>, <<52, 53>> >>, 1, nf))

TypeFields == {<<55>>, <<57>>, <<54>>, <<49>>, <<122, 122>>}
FieldCounts == {7, 9, 13}
FlagFields == {<<48>>, <<49>>}
ValueFields == {STR_HI, STR_LO, <<57, 48>>, <<122, 122>>}

AllLines ==
  { LineOf(t, nf, f7, v, f9, f10) :
      t \in TypeFields, nf \in FieldCounts, f7 \in FlagFields, v \in ValueFields,
      f9 \in FlagFields, f10 \in FlagFields }

\* lines that batches are made of: a normal and a control-solution glucose
\* line, a ketone line, an unhandled type, a short line
NormalGlucoseLine == LineOf(<<55>>, 13, <<48>>, <<57, 48>>, <<49>>, <<49>>)
ControlGlucoseLine == LineOf(<<55>>, 13, <<48>>, <<57, 48>>, <<49>>, <<48>>)
CoreLines ==
  { NormalGlucoseLine, ControlGlucoseLine,
    LineOf(<<57>>, 13, <<48>>, STR_HI, <<49>>, <<49>>),
    LineOf(<<49>>, 13, <<48>>, <<57, 48>>, <<49>>, <<49>>),
    LineOf(<<49>>, 7, <<48>>, <<57, 48>>, <<49>>, <<49>>) }

Batches ==
  {<<l>> : l \in AllLines} \cup UNION {[1..n -> CoreLines] : n \in 0..MaxBatch}

\* a driver, with or without deviceInfo, is handed a batch of lines
InitRecords ==
  /\ mode = "records"
  /\ isHID = FALSE
  /\ mayReject = FALSE
  /\ callbackMayThrow = FALSE
  /\ deviceInfo \in {Null, Dev}
  /\ SessionFresh
  /\ TextIdle
  /\ FramesIdle
  /\ SendIdle
  /\ NativeIdle
  /\ PipeIdle
  /\ PermissionIdle
  /\ batch \in Batches
  /\ processedRecords = <<>>
  /\ ridx = 0
  /\ rpc = "idle"

\* processRecords is entered: const processedRecords = []
ProcessRecordsCall ==
  /\ rpc = "idle"
  /\ rpc' = "loop"
  /\ ridx' = 0
  /\ processedRecords' = <<>>
  /\ UNCHANGED <<mode, isHID, mayReject, callbackMayThrow, activeConnections, claimedInterfaces,
               liveConns, opens, deviceInfo, isConnected, deviceName, isInitialized, op, dpc,
               ret, i, attempts, bytesWritten, records, okOps, triedOps, exhausted,
               initWrites, initReads, lastData, lastWire, opIO, readyAtCall, textCmds,
               textFailed, lateCmd, connectOpened, sessionCloses, disconnected,
               redundantClose, lastReadEmpty, fpc, connectedDevicePath, capturedPath,
               flowOpened, closeCalls, closeEff, batch, serialResponse, wakeUp, deviceDate,
               timeSync, cbThrewAt, textInput, driverParsed, appParsed, checksumWarned, tpc,
               frameOpcode, framePayload, frameCommand, hidFrame, textFrame, appFrame, bpc,
               sendEnv, sendCommand, sendBytes, sendWritten, sendResponse, sendAttempts,
               sendReads, sendChunks, finalResponse, spc, nativeReturn, inFlight, promise,
               hasPermission, permissionRequestedDevices, autoRequestPermissions, unanswered,
               moduleUnanswered, targetHasPermission, permissionGranted, hpc>>

\* faulty variant of ProcessRecord: a line that gives no record ends the batch
ProcessRecord_abortsOnBadLine ==
  /\ rpc = "loop" /\ ridx < Len(batch)
  /\ LET processedRecord == parseRecord(batch[ridx + 1]) IN
       /\ processedRecords' = IF processedRecord # NoRecord
                              THEN Append(processedRecords, processedRecord)
                              ELSE processedRecords
       /\ ridx' = IF processedRecord # NoRecord THEN ridx + 1 ELSE Len(batch)
  /\ UNCHANGED <<mode, isHID, mayReject, callbackMayThrow, activeConnections, claimedInterfaces,
               liveConns, opens, deviceInfo, isConnected, deviceName, isInitialized, op, dpc,
               ret, i, attempts, bytesWritten, records, okOps, triedOps, exhausted,
               initWrites, initReads, lastData, lastWire, opIO, readyAtCall, textCmds,
               textFailed, lateCmd, connectOpened, sessionCloses, disconnected,
               redundantClose, lastReadEmpty, fpc, connectedDevicePath, capturedPath,
               flowOpened, closeCalls, closeEff, batch, rpc, serialResponse, wakeUp,
               deviceDate, timeSync, cbThrewAt, textInput, driverParsed, appParsed,
               checksumWarned, tpc, frameOpcode, framePayload, frameCommand, hidFrame,
               textFrame, appFrame, bpc, sendEnv, sendCommand, sendBytes, sendWritten,
               sendResponse, sendAttempts, sendReads, sendChunks, finalResponse, spc,
               nativeReturn, inFlight, promise, hasPermission, permissionRequestedDevices,
               autoRequestPermissions, unanswered, moduleUnanswered, targetHasPermission,
               permissionGranted, hpc>>

\* one iteration of for (const record of records)
ProcessRecord ==
  /\ rpc = "loop" /\ ridx < Len(batch)
  /\ LET processedRecord == parseRecord(batch[ridx + 1]) IN
       processedRecords' = IF processedRecord # NoRecord
                           THEN Append(processedRecords, processedRecord)
                           ELSE processedRecords
  /\ ridx' = ridx + 1
  /\ UNCHANGED <<mode, isHID, mayReject, callbackMayThrow, activeConnections, claimedInterfaces,
               liveConns, opens, deviceInfo, isConnected, deviceName, isInitialized, op, dpc,
               ret, i, attempts, bytesWritten, records, okOps, triedOps, exhausted,
               initWrites, initReads, lastData, lastWire, opIO, readyAtCall, textCmds,
               textFailed, lateCmd, connectOpened, sessionCloses, disconnected,
               redundantClose, lastReadEmpty, fpc, connectedDevicePath, capturedPath,
               flowOpened, closeCalls, closeEff, batch, rpc, serialResponse, wakeUp,
               deviceDate, timeSync, cbThrewAt, textInput, driverParsed, appParsed,
               checksumWarned, tpc, frameOpcode, framePayload, frameCommand, hidFrame,
               textFrame, appFrame, bpc, sendEnv, sendCommand, sendBytes, sendWritten,
               sendResponse, sendAttempts, sendReads, sendChunks, finalResponse, spc,
               nativeReturn, inFlight, promise, hasPermission, permissionRequestedDevices,
               autoRequestPermissions, unanswered, moduleUnanswered, targetHasPermission,
               permissionGranted, hpc>>

\* return processedRecords
ProcessRecordsReturn ==
  /\ rpc = "loop" /\ ridx = Len(batch)
  /\ rpc' = "returned"
  /\ UNCHANGED <<mode, isHID, mayReject, callbackMayThrow, activeConnections, claimedInterfaces,
               liveConns, opens, deviceInfo, isConnected, deviceName, isInitialized, op, dpc,
               ret, i, attempts, bytesWritten, records, okOps, triedOps, exhausted,
               initWrites, initReads, lastData, lastWire, opIO, readyAtCall, textCmds,
               textFailed, lateCmd, connectOpened, sessionCloses, disconnected,
               redundantClose, lastReadEmpty, fpc, connectedDevicePath, capturedPath,
               flowOpened, closeCalls, closeEff, batch, processedRecords, ridx,
               serialResponse, wakeUp, deviceDate, timeSync, cbThrewAt, textInput,
               driverParsed, appParsed, checksumWarned, tpc, frameOpcode, framePayload,
               frameCommand, hidFrame, textFrame, appFrame, bpc, sendEnv, sendCommand,
               sendBytes, sendWritten, sendResponse, sendAttempts, sendReads, sendChunks,
               finalResponse, spc, nativeReturn, inFlight, promise, hasPermission,
               permissionRequestedDevices, autoRequestPermissions, unanswered,
               moduleUnanswered, targetHasPermission, permissionGranted, hpc>>

NextRecords == ProcessRecordsCall \/ ProcessRecord \/ ProcessRecordsReturn

SpecRecords == InitRecords /\ [][NextRecords]_vars
(***************************************************************************)
(* The two parseTextResponse functions applied to one response.            *)
(***************************************************************************)
InitText ==
  /\ mode = "text"
  /\ isHID = FALSE
  /\ mayReject = FALSE
  /\ callbackMayThrow = FALSE
  /\ deviceInfo = Null
  /\ SessionFresh
  /\ RecordsIdle
  /\ FramesIdle
  /\ SendIdle
  /\ NativeIdle
  /\ PipeIdle
  /\ PermissionIdle
  /\ textInput \in TextInputs
  /\ driverParsed = NullText
  /\ appParsed = NullText
  /\ checksumWarned = FALSE
  /\ tpc = "idle"

\* this.parseTextResponse(response) of the driver
DriverParse ==
  /\ mode = "text" /\ tpc = "idle"
  /\ driverParsed' = parseTextResponse(textInput)
  /\ tpc' = "app"
  /\ UNCHANGED <<mode, isHID, mayReject, callbackMayThrow, activeConnections, claimedInterfaces,
               liveConns, opens, deviceInfo, isConnected, deviceName, isInitialized, op, dpc,
               ret, i, attempts, bytesWritten, records, okOps, triedOps, exhausted,
               initWrites, initReads, lastData, lastWire, opIO, readyAtCall, textCmds,
               textFailed, lateCmd, connectOpened, sessionCloses, disconnected,
               redundantClose, lastReadEmpty, fpc, connectedDevicePath, capturedPath,
               flowOpened, closeCalls, closeEff, batch, processedRecords, ridx, rpc,
               serialResponse, wakeUp, deviceDate, timeSync, cbThrewAt, textInput, appParsed,
               checksumWarned, frameOpcode, framePayload, frameCommand, hidFrame, textFrame,
               appFrame, bpc, sendEnv, sendCommand, sendBytes, sendWritten, sendResponse,
               sendAttempts, sendReads, sendChunks, finalResponse, spc, nativeReturn,
               inFlight, promise, hasPermission, permissionRequestedDevices,
               autoRequestPermissions, unanswered, moduleUnanswered, targetHasPermission,
               permissionGranted, hpc>>

\* parseTextResponse(response) of the app
AppParse ==
  /\ mode = "text" /\ tpc = "app"
  /\ appParsed' = App_parseTextResponse(textInput)
  /\ checksumWarned' = App_checksumWarned(textInput)
  /\ tpc' = "done"
  /\ UNCHANGED <<mode, isHID, mayReject, callbackMayThrow, activeConnections, claimedInterfaces,
               liveConns, opens, deviceInfo, isConnected, deviceName, isInitialized, op, dpc,
               ret, i, attempts, bytesWritten, records, okOps, triedOps, exhausted,
               initWrites, initReads, lastData, lastWire, opIO, readyAtCall, textCmds,
               textFailed, lateCmd, connectOpened, sessionCloses, disconnected,
               redundantClose, lastReadEmpty, fpc, connectedDevicePath, capturedPath,
               flowOpened, closeCalls, closeEff, batch, processedRecords, ridx, rpc,
               serialResponse, wakeUp, deviceDate, timeSync, cbThrewAt, textInput,
               driverParsed, frameOpcode, framePayload, frameCommand, hidFrame, textFrame,
               appFrame, bpc, sendEnv, sendCommand, sendBytes, sendWritten, sendResponse,
               sendAttempts, sendReads, sendChunks, finalResponse, spc, nativeReturn,
               inFlight, promise, hasPermission, permissionRequestedDevices,
               autoRequestPermissions, unanswered, moduleUnanswered, targetHasPermission,
               permissionGranted, hpc>>

NextText == DriverParse \/ AppParse

SpecText == InitText /\ [][NextText]_vars

(***************************************************************************)
(* The frame builders applied to one opcode, payload and command.          *)
(***************************************************************************)
InitFrames ==
  /\ mode = "frames"
  /\ isHID = FALSE
  /\ mayReject = FALSE
  /\ callbackMayThrow = FALSE
  /\ deviceInfo = Null
  /\ SessionFresh
  /\ RecordsIdle
  /\ TextIdle
  /\ SendIdle
  /\ NativeIdle
  /\ PipeIdle
  /\ PermissionIdle
  /\ frameOpcode \in Opcodes
  /\ framePayload \in Payloads
  /\ frameCommand \in Commands
  /\ hidFrame = <<>>
  /\ textFrame = <<>>
  /\ appFrame = <<>>
  /\ bpc = "idle"

\* this.createHIDFrame(command, data)
BuildHIDFrame ==
  /\ mode = "frames" /\ bpc = "idle"
  /\ hidFrame' = createHIDFrame(frameOpcode, framePayload)
  /\ bpc' = "hid"
  /\ UNCHANGED <<mode, isHID, mayReject, callbackMayThrow, activeConnections, claimedInterfaces,
               liveConns, opens, deviceInfo, isConnected, deviceName, isInitialized, op, dpc,
               ret, i, attempts, bytesWritten, records, okOps, triedOps, exhausted,
               initWrites, initReads, lastData, lastWire, opIO, readyAtCall, textCmds,
               textFailed, lateCmd, connectOpened, sessionCloses, disconnected,
               redundantClose, lastReadEmpty, fpc, connectedDevicePath, capturedPath,
               flowOpened, closeCalls, closeEff, batch, processedRecords, ridx, rpc,
               serialResponse, wakeUp, deviceDate, timeSync, cbThrewAt, textInput,
               driverParsed, appParsed, checksumWarned, tpc, frameOpcode, framePayload,
               frameCommand, textFrame, appFrame, sendEnv, sendCommand, sendBytes,
               sendWritten, sendResponse, sendAttempts, sendReads, sendChunks, finalResponse,
               spc, nativeReturn, inFlight, promise, hasPermission,
               permissionRequestedDevices, autoRequestPermissions, unanswered,
               moduleUnanswered, targetHasPermission, permissionGranted, hpc>>

\* this.createTextCommandFrame(command)
BuildTextCommandFrame ==
  /\ mode = "frames" /\ bpc = "hid"
  /\ textFrame' = createTextCommandFrame(frameCommand)
  /\ bpc' = "text"
  /\ UNCHANGED <<mode, isHID, mayReject, callbackMayThrow, activeConnections, claimedInterfaces,
               liveConns, opens, deviceInfo, isConnected, deviceName, isInitialized, op, dpc,
               ret, i, attempts, bytesWritten, records, okOps, triedOps, exhausted,
               initWrites, initReads, lastData, lastWire, opIO, readyAtCall, textCmds,
               textFailed, lateCmd, connectOpened, sessionCloses, disconnected,
               redundantClose, lastReadEmpty, fpc, connectedDevicePath, capturedPath,
               flowOpened, closeCalls, closeEff, batch, processedRecords, ridx, rpc,
               serialResponse, wakeUp, deviceDate, timeSync, cbThrewAt, textInput,
               driverParsed, appParsed, checksumWarned, tpc, frameOpcode, framePayload,
               frameCommand, hidFrame, appFrame, sendEnv, sendCommand, sendBytes, sendWritten,
               sendResponse, sendAttempts, sendReads, sendChunks, finalResponse, spc,
               nativeReturn, inFlight, promise, hasPermission, permissionRequestedDevices,
               autoRequestPermissions, unanswered, moduleUnanswered, targetHasPermission,
               permissionGranted, hpc>>

\* the frame sendHIDTextCommand hands to writeData
BuildAppFrame ==
  /\ mode = "frames" /\ bpc = "text"
  /\ appFrame' = App_hidFrame(frameCommand)
  /\ bpc' = "done"
  /\ UNCHANGED <<mode, isHID, mayReject, callbackMayThrow, activeConnections, claimedInterfaces,
               liveConns, opens, deviceInfo, isConnected, deviceName, isInitialized, op, dpc,
               ret, i, attempts, bytesWritten, records, okOps, triedOps, exhausted,
               initWrites, initReads, lastData, lastWire, opIO, readyAtCall, textCmds,
               textFailed, lateCmd, connectOpened, sessionCloses, disconnected,
               redundantClose, lastReadEmpty, fpc, connectedDevicePath, capturedPath,
               flowOpened, closeCalls, closeEff, batch, processedRecords, ridx, rpc,
               serialResponse, wakeUp, deviceDate, timeSync, cbThrewAt, textInput,
               driverParsed, appParsed, checksumWarned, tpc, frameOpcode, framePayload,
               frameCommand, hidFrame, textFrame, sendEnv, sendCommand, sendBytes,
               sendWritten, sendResponse, sendAttempts, sendReads, sendChunks, finalResponse,
               spc, nativeReturn, inFlight, promise, hasPermission,
               permissionRequestedDevices, autoRequestPermissions, unanswered,
               moduleUnanswered, targetHasPermission, permissionGranted, hpc>>

NextFrames == BuildHIDFrame \/ BuildTextCommandFrame \/ BuildAppFrame

SpecFrames == InitFrames /\ [][NextFrames]_vars

(***************************************************************************)
(* One call of the native sendTextCommand.                                 *)
(***************************************************************************)
InitSend ==
  /\ mode = "send"
  /\ isHID = FALSE
  /\ mayReject = FALSE
  /\ callbackMayThrow = FALSE
  /\ deviceInfo = Null
  /\ SessionFresh
  /\ RecordsIdle
  /\ TextIdle
  /\ FramesIdle
  /\ NativeIdle
  /\ PipeIdle
  /\ PermissionIdle
  /\ sendEnv \in SendEnvs
  /\ sendCommand \in TextCommands
  /\ sendBytes = <<>>
  /\ sendWritten = <<>>
  /\ sendResponse = <<>>
  /\ sendAttempts = 0
  /\ sendReads = 0
  /\ sendChunks = 0
  /\ finalResponse = <<>>
  /\ spc = "start"

\* sendTextCommand up to the read loop: the early returns of "", the
\* terminator, the write
SendWrite ==
  /\ mode = "send" /\ spc = "start"
  /\ IF sendEnv \in {"noConnection", "noDevice"}
     THEN /\ spc' = "done"
          /\ UNCHANGED <<sendBytes, sendWritten>>
     ELSE /\ sendBytes' = AsciiEncode(fullCommand(sendCommand))
          /\ IF sendEnv = "noOut"
             THEN /\ spc' = "done"
                  /\ UNCHANGED sendWritten
             ELSE \E bytesWrittenNow \in {-1, Len(sendBytes')} :
                    /\ sendWritten' = <<bytesWrittenNow>>
                    /\ spc' = IF bytesWrittenNow < 0 \/ sendEnv = "noIn"
                              THEN "done" ELSE "read"
  /\ finalResponse' = <<>>
  /\ UNCHANGED <<mode, isHID, mayReject, callbackMayThrow, activeConnections, claimedInterfaces,
               liveConns, opens, deviceInfo, isConnected, deviceName, isInitialized, op, dpc,
               ret, i, attempts, bytesWritten, records, okOps, triedOps, exhausted,
               initWrites, initReads, lastData, lastWire, opIO, readyAtCall, textCmds,
               textFailed, lateCmd, connectOpened, sessionCloses, disconnected,
               redundantClose, lastReadEmpty, fpc, connectedDevicePath, capturedPath,
               flowOpened, closeCalls, closeEff, batch, processedRecords, ridx, rpc,
               serialResponse, wakeUp, deviceDate, timeSync, cbThrewAt, textInput,
               driverParsed, appParsed, checksumWarned, tpc, frameOpcode, framePayload,
               frameCommand, hidFrame, textFrame, appFrame, bpc, sendEnv, sendCommand,
               sendResponse, sendAttempts, sendReads, sendChunks, nativeReturn, inFlight,
               promise, hasPermission, permissionRequestedDevices, autoRequestPermissions,
               unanswered, moduleUnanswered, targetHasPermission, permissionGranted, hpc>>

\* faulty variant of SendRead: the marker does not end the loop
SendRead_noBreak ==
  /\ mode = "send" /\ spc = "read"
  /\ \E bytes \in (IF sendChunks < MaxChunks THEN Chunks ELSE {}) \cup {<<>>} :
       /\ sendResponse' = sendResponse \o AsciiDecode(bytes)
       /\ sendChunks' = IF bytes # <<>> THEN sendChunks + 1 ELSE sendChunks
       /\ sendAttempts' = sendAttempts + 1
       /\ spc' = IF sendAttempts' < Native_maxAttempts THEN "read" ELSE "done"
       /\ finalResponse' = IF spc' = "done" THEN sendResponse' ELSE finalResponse
  /\ sendReads' = sendReads + 1
  /\ UNCHANGED <<mode, isHID, mayReject, callbackMayThrow, activeConnections, claimedInterfaces,
               liveConns, opens, deviceInfo, isConnected, deviceName, isInitialized, op, dpc,
               ret, i, attempts, bytesWritten, records, okOps, triedOps, exhausted,
               initWrites, initReads, lastData, lastWire, opIO, readyAtCall, textCmds,
               textFailed, lateCmd, connectOpened, sessionCloses, disconnected,
               redundantClose, lastReadEmpty, fpc, connectedDevicePath, capturedPath,
               flowOpened, closeCalls, closeEff, batch, processedRecords, ridx, rpc,
               serialResponse, wakeUp, deviceDate, timeSync, cbThrewAt, textInput,
               driverParsed, appParsed, checksumWarned, tpc, frameOpcode, framePayload,
               frameCommand, hidFrame, textFrame, appFrame, bpc, sendEnv, sendCommand,
               sendBytes, sendWritten, nativeReturn, inFlight, promise, hasPermission,
               permissionRequestedDevices, autoRequestPermissions, unanswered,
               moduleUnanswered, targetHasPermission, permissionGranted, hpc>>

\* one turn of while (attempts < maxAttempts): a read that brings bytes
\* (appended, and the loop is left if a marker is now in the text), nothing,
\* or a negative count; after the loop the accumulated text is returned
SendRead ==
  /\ mode = "send" /\ spc = "read"
  /\ \E bytes \in (IF sendChunks < MaxChunks THEN Chunks ELSE {}) \cup {<<>>} :
       LET found == bytes # <<>> /\ HasMarker(sendResponse \o AsciiDecode(bytes)) IN
       /\ sendResponse' = sendResponse \o AsciiDecode(bytes)
       /\ sendChunks' = IF bytes # <<>> THEN sendChunks + 1 ELSE sendChunks
       /\ sendAttempts' = IF found THEN sendAttempts ELSE sendAttempts + 1
       /\ spc' = IF ~found /\ sendAttempts' < Native_maxAttempts THEN "read" ELSE "done"
       /\ finalResponse' = IF spc' = "done" THEN sendResponse' ELSE finalResponse
  /\ sendReads' = sendReads + 1
  /\ UNCHANGED <<mode, isHID, mayReject, callbackMayThrow, activeConnections, claimedInterfaces,
               liveConns, opens, deviceInfo, isConnected, deviceName, isInitialized, op, dpc,
               ret, i, attempts, bytesWritten, records, okOps, triedOps, exhausted,
               initWrites, initReads, lastData, lastWire, opIO, readyAtCall, textCmds,
               textFailed, lateCmd, connectOpened, sessionCloses, disconnected,
               redundantClose, lastReadEmpty, fpc, connectedDevicePath, capturedPath,
               flowOpened, closeCalls, closeEff, batch, processedRecords, ridx, rpc,
               serialResponse, wakeUp, deviceDate, timeSync, cbThrewAt, textInput,
               driverParsed, appParsed, checksumWarned, tpc, frameOpcode, framePayload,
               frameCommand, hidFrame, textFrame, appFrame, bpc, sendEnv, sendCommand,
               sendBytes, sendWritten, nativeReturn, inFlight, promise, hasPermission,
               permissionRequestedDevices, autoRequestPermissions, unanswered,
               moduleUnanswered, targetHasPermission, permissionGranted, hpc>>

NextSend == SendWrite \/ SendRead

SpecSend == InitSend /\ [][NextSend]_vars

\* the call is not suspended for ever: each bulkTransfer returns within its
\* timeout
SpecSendLive == SpecSend /\ WF_vars(NextSend)


(***************************************************************************)
(* Properties.                                                             *)
(***************************************************************************)
IsPrefix(s, t) == Len(s) <= Len(t) /\ \A k \in 1..Len(s) : s[k] = t[k]

\* the promises of the usbModule settle with a value, as those of the native
\* module do (every native function catches its exceptions)
ValueTransport == ~mayReject

\* C1: when all 3 writes of the 2nd init command (0x05) return a negative
\* count, connect has thrown with isInitialized and isConnected false, and in
\* either orchestration flow closeDevice takes effect exactly once by the
\* time the flow ends, never twice
C1_FailedHandshakeReleasedOnce ==
  exhausted = 5 =>
    /\ op = "connect" /\ dpc = "done" /\ ret = "throw"
    /\ ~isInitialized /\ ~isConnected
    /\ (mode # "api" /\ ValueTransport) =>
         /\ closeEff <= 1
         /\ fpc = "end" => closeEff = 1

C1_Witness ==
  /\ mode = "handleUSB" /\ ValueTransport
  /\ exhausted = 5 /\ okOps = <<4>>
  /\ fpc = "end" /\ closeEff = 1

\* C2: when connect throws after its openDevice succeeded, the connection
\* it opened has been closed
C2_ConnectClosesOnFailure ==
  (op = "connect" /\ dpc = "done" /\ ret = "throw" /\ connectOpened)
    => activeConnections = 0

\* C3: isInitialized becomes true only when 0x04, 0x05, 0x15, 0x01, 0x00 have
\* each been written with a non-negative count, in that order; the opcodes
\* tried are a prefix of that order, and an opcode is tried only when all
\* before it have succeeded
C3_InitializedAfterOrderedWrites ==
  [][ /\ (isInitialized' /\ (~isInitialized \/ (dpc # "c_verify" /\ dpc' = "c_verify")))
         => okOps' = <<4, 5, 21, 1, 0>>
      /\ IsPrefix(triedOps', <<4, 5, 21, 1, 0>>)
      /\ IsPrefix(okOps', triedOps')
      /\ Len(triedOps') <= Len(okOps') + 1 ]_vars

C3_Witness ==
  /\ op = "connect" /\ dpc = "c_verify" /\ isInitialized
  /\ okOps = <<4, 5, 21, 1, 0>>

\* C4: an init command is written at most 3 times, again only after a
\* negative count; after 3 negative counts connect has thrown and the
\* failed command is the last one tried
C4_ThreeAttemptsThenFail ==
  /\ attempts <= 3
  /\ (op = "connect" /\ dpc = "i_cmd_w" /\ attempts > 0) => bytesWritten < 0
  /\ exhausted # -1 =>
       /\ attempts = 3 /\ bytesWritten < 0
       /\ dpc = "done" /\ ret = "throw"
       /\ triedOps[Len(triedOps)] = exhausted
       /\ Len(okOps) = Len(triedOps) - 1

C4_Witness ==
  /\ exhausted = 21 /\ attempts = 3 /\ initWrites = 1 + 1 + 1 + 3
  /\ dpc = "done" /\ ret = "throw"

\* C5: on a HID device with an open connection and the interface claimed,
\* the bytes of a 64-byte frame handed to writeData are the bytes put on the
\* wire
C5_WireIsDriverFrame ==
  (isHID /\ Len(lastData) = 64 /\ activeConnections # 0 /\ alreadyClaimed)
    => lastWire = lastData

\* C6: a flow that ends after its openDevice succeeded has called closeDevice
C6_EveryExitCloses ==
  (mode # "api" /\ fpc = "end" /\ flowOpened) => closeCalls >= 1

C8_FetchRequiresReady ==
  (op = "fetchData" /\ ~readyAtCall) => ~opIO

\* C9: a getDeviceInfo called while isConnected is false sends no text
\* command; the commands sent are a prefix of serial, date, time and none is
\* sent after one that failed
C9_InfoRequiresReady ==
  op = "getDeviceInfo" =>
    /\ ~readyAtCall => textCmds = <<>>
    /\ IsPrefix(textCmds, <<"$serlnum?", "$date?", "$time?">>)
    /\ ~lateCmd

\* C10: a fetchData whose read returned no bytes returns no records and
\* does not throw
C10_EmptyResponseNoRecords ==
  (op = "fetchData" /\ dpc = "done" /\ lastReadEmpty)
    => (ret = "ok" /\ records = 0)

(***************************************************************************)
(* Properties of the record parser (under SpecRecords).                    *)
(***************************************************************************)
\* what a line says, read off its fields
LineType(l) == parseInt(Field(split(l), 0))
IsControlGlucose(l) == LineType(l) = Num(7) /\ parseInt(Field(split(l), 10)) = Num(0)
IsNormalGlucose(l) ==
  /\ Len(split(l)) >= 8
  /\ LineType(l) = Num(7)
  /\ parseInt(Field(split(l), 10)) # Num(0)
IsNormalKetone(l) ==
  /\ Len(split(l)) >= 8
  /\ LineType(l) = Num(9)
  /\ parseInt(Field(split(l), 9)) # Num(0)
IsTimeChange(l) == Len(split(l)) >= 8 /\ LineType(l) = Num(6)
ValueOf(l) == Field(split(l), 8)

\* processRecords has returned for a driver that holds a deviceInfo
Returned == rpc = "returned" /\ deviceInfo # Null

\* C11: a batch of one normal glucose line (with a readable value) and one
\* control-solution glucose line gives exactly one record, that of the
\* normal line
C11_ControlSolutionExcluded ==
  (/\ Returned /\ Len(batch) = 2
   /\ \E a, b \in 1..2 :
        /\ a # b
        /\ IsNormalGlucose(batch[a]) /\ parseInt(ValueOf(batch[a])) # NaN
        /\ IsControlGlucose(batch[b]))
  => /\ Len(processedRecords) = 1
     /\ processedRecords[1].kind = "glucose"
     /\ IsNormalGlucose(processedRecords[1].base.raw)

\* C12: a non-control glucose line gives a record with value 501 and
\* annotation high/500 for HI, 19 and low/20 for LO, the parsed integer and
\* no annotation otherwise; a line with any other value gives no record
C12_GlucoseValue ==
  (Returned /\ Len(batch) = 1 /\ IsNormalGlucose(batch[1])) =>
    LET v == ValueOf(batch[1])
        emitted == /\ Len(processedRecords) = 1
                   /\ processedRecords[1].kind = "glucose"
    IN IF v = STR_HI
         THEN /\ emitted
              /\ processedRecords[1].value = 501
              /\ processedRecords[1].annotations = <<[value |-> "high", threshold |-> 500]>>
       ELSE IF v = STR_LO
         THEN /\ emitted
              /\ processedRecords[1].value = 19
              /\ processedRecords[1].annotations = <<[value |-> "low", threshold |-> 20]>>
       ELSE IF parseInt(v) # NaN
         THEN /\ emitted
              /\ Num(processedRecords[1].value) = parseInt(v)
              /\ processedRecords[1].annotations = <<>>
       ELSE processedRecords = <<>>

\* C13: a non-control ketone line gives a record whose value times 18 is
\* the parsed integer of field8, or 8 + 1/18 with an annotation for HI; a
\* ketone line with field9 = 0 gives no record
C13_KetoneValue ==
  (Returned /\ Len(batch) = 1 /\ Len(split(batch[1])) >= 8
   /\ LineType(batch[1]) = Num(9)) =>
    LET v == ValueOf(batch[1])
        emitted == /\ Len(processedRecords) = 1
                   /\ processedRecords[1].kind = "ketone"
    IN IF ~IsNormalKetone(batch[1]) THEN processedRecords = <<>>
       ELSE IF v = STR_HI
         THEN /\ emitted
              /\ processedRecords[1].valueTimes18 = 8 * 18 + 1
              /\ Len(processedRecords[1].annotations) = 1
       ELSE IF parseInt(v) # NaN
         THEN /\ emitted
              /\ Num(processedRecords[1].valueTimes18) = parseInt(v)
       ELSE TRUE

\* C14: a time-change line gives a record, with from, to and agent manual,
\* exactly when its field7 is 1
C14_TimeChangeValid ==
  (Returned /\ Len(batch) = 1 /\ IsTimeChange(batch[1])) =>
    IF parseInt(Field(split(batch[1]), 7)) = Num(1)
    THEN /\ Len(processedRecords) = 1
         /\ processedRecords[1].kind = "timeChange"
         /\ processedRecords[1].change.agent = "manual"
         /\ processedRecords[1].change.to = processedRecords[1].base.timestamp
    ELSE processedRecords = <<>>

RECURSIVE RecordsOf(_)
RecordsOf(ls) ==
  IF Len(ls) = 0 THEN <<>>
  ELSE (IF parseRecord(ls[1]) # NoRecord THEN <<parseRecord(ls[1])>> ELSE <<>>)
       \o RecordsOf(Tail(ls))

C18_ChecksumNeverInvalidates ==
  \A d \in Datas, c \in AllChecksums :
    textInput = Frame(d, c, STR_OK) =>
      /\ tpc \in {"app", "done"} => driverParsed = Text(d)
      /\ tpc = "done" => appParsed = Text(d)

C18_Witness ==
  /\ tpc = "done"
  /\ textInput = Frame(STR_DATA, Hex8(0), STR_OK)
  /\ checksumWarned
  /\ driverParsed = Text(STR_DATA)
  /\ appParsed = Text(STR_DATA)

\* C19: a response whose status is Fail! never yields data, whatever its data
\* and checksum, and getSerialNumber rejects when $serlnum? is answered so.
C19_FailNeverData ==
  \A d \in Datas, c \in AllChecksums :
    serialResponse = Frame(d, c, STR_FAIL) =>
      /\ parseTextResponse(serialResponse) = NullText
      /\ op = "getDeviceInfo" /\ dpc = "done" /\ ret = "throw"
      /\ textCmds = <<"$serlnum?">>

C19_Witness ==
  /\ serialResponse = Frame(<<>>, Hex8(0), STR_FAIL)
  /\ op = "getDeviceInfo" /\ dpc = "done" /\ ret = "throw"

\* C20: on a response that does not match the framed pattern the parser
\* returns the first CR LF delimited segment if it is not empty (blank counts
\* as empty) and fails
\* otherwise, and the driver's parser and the app's give the same result for
\* every input.
C20_ParsersAgree ==
  tpc = "done" =>
    /\ driverParsed = appParsed
    /\ (textInput # <<>> /\ RegexMatch(textInput) = NoMatch) =>
         driverParsed = IF ~trimIsEmpty(FirstSegment(textInput))
                        THEN Text(FirstSegment(textInput))
                        ELSE NullText

(***************************************************************************)
(* Frame builders.                                                         *)
(***************************************************************************)
\* C21: for every opcode and every payload of at most 62 bytes createHIDFrame
\* returns 64 bytes: byte0 the opcode, byte1 the payload length (0 without
\* payload), the payload from offset 2, zero in every remaining byte.
C21_HIDFrameLayout ==
  (bpc # "idle" /\ Len(framePayload) <= FRAME_SIZE - 2) =>
    /\ Len(hidFrame) = FRAME_SIZE
    /\ hidFrame[1] = frameOpcode
    /\ hidFrame[2] = Len(framePayload)
    /\ \A k \in 1..Len(framePayload) : hidFrame[2 + k] = framePayload[k]
    /\ \A k \in (3 + Len(framePayload))..FRAME_SIZE : hidFrame[k] = 0

C21_Witness ==
  /\ bpc = "done"
  /\ Len(framePayload) = 62
  /\ frameOpcode = 96
  /\ hidFrame[1] = 96 /\ hidFrame[2] = 62
  /\ hidFrame[64] = framePayload[62] /\ hidFrame[64] # 0

\* C22: building a frame from a payload of more than 62 bytes fails, and no
\* builder returns a frame whose byte1 exceeds the number of payload bytes
\* stored in it.
C22_LongPayloadRejected ==
  /\ (bpc # "idle" /\ Len(framePayload) > FRAME_SIZE - 2) => hidFrame = <<>>
  /\ hidFrame # <<>> => hidFrame[2] <= Len(hidFrame) - 2
  /\ textFrame # <<>> => textFrame[2] <= Len(textFrame) - 2

\* C23: the text-command frame of a command is 0x21, the command's length,
\* the command's codes from offset 2 without a terminator and zeros up to 64
\* bytes, and the protocol class and the app's HID text sender build the same
\* frame for the same command.
C23_TextFrameSameEverywhere ==
  (bpc = "done" /\ Len(frameCommand) <= FRAME_SIZE - 2) =>
    /\ Len(textFrame) = FRAME_SIZE
    /\ textFrame[1] = 33
    /\ textFrame[2] = Len(frameCommand)
    /\ \A k \in 1..Len(frameCommand) : textFrame[2 + k] = frameCommand[k]
    /\ \A k \in (3 + Len(frameCommand))..FRAME_SIZE : textFrame[k] = 0
    /\ appFrame = textFrame

(***************************************************************************)
(* Handshake: wake-up and reads.                                           *)
(***************************************************************************)
\* sendWakeUpCommand is over: its write was rejected, or its read was made
WakeUpOver == wakeUp # <<>> /\ (Len(wakeUp) = 2 \/ wakeUp[1] = "throw")

\* C24: the wake-up is best-effort: whatever its write gave (a count, a
\* negative count, a rejection) and whatever its read gave (data, nothing, a
\* rejection), the handshake has not failed and goes on to the first init
\* command; no init command is written before the wake-up write.
C24_WakeUpBestEffort ==
  op = "connect" =>
    /\ dpc \in {"c_open", "c_claim", "i_wake_w"} => wakeUp = <<>> /\ triedOps = <<>>
    /\ dpc = "i_wake_r" =>
         /\ Len(wakeUp) = 1 /\ wakeUp[1] \in {"ok", "neg"}
         /\ triedOps = <<>> /\ ret # "throw"
    /\ (wakeUp # <<>> /\ dpc # "i_wake_r") =>
         /\ WakeUpOver
         /\ IF triedOps = <<>>
            THEN dpc = "i_cmd_w" /\ i = 0 /\ ret # "throw"
            ELSE triedOps[1] = INIT_SEQUENCE[1]
    /\ triedOps # <<>> => wakeUp # <<>>
    /\ ret = "ok" => WakeUpOver /\ triedOps = INIT_SEQUENCE

C24_Witness ==
  /\ op = "connect" /\ dpc = "done" /\ ret = "ok"
  /\ wakeUp = <<"neg", "empty">>
  /\ triedOps = INIT_SEQUENCE
  /\ isInitialized

\* C25: in the handshake every successful write of an init command other
\* than 0x00 is followed by exactly one read before the next command is
\* written, whatever that read gives (data, nothing, a rejection) the step
\* does not fail, and the successful write of 0x00 is followed by no read.
C25_OneReadPerAnsweredCommand ==
  op = "connect" =>
    LET wakeReads == IF Len(wakeUp) = 2 THEN 1 ELSE 0
        answered == Cardinality({k \in 1..Len(okOps) : okOps[k] # 0})
        pending == IF dpc = "i_cmd_r" THEN 1 ELSE 0
    IN
    /\ initReads + pending = wakeReads + answered
    /\ dpc = "i_cmd_r" =>
         /\ okOps = triedOps /\ okOps[Len(okOps)] # 0
         /\ ret # "throw"
    /\ (dpc = "i_cmd_w" /\ attempts = 0) => okOps = triedOps /\ Len(okOps) = i
    /\ (ret = "throw" /\ triedOps # <<>> /\ okOps = triedOps) => okOps = INIT_SEQUENCE

C25_Witness ==
  /\ op = "connect" /\ dpc = "c_verify"
  /\ okOps = INIT_SEQUENCE
  /\ wakeUp = <<"ok", "data">>
  /\ initReads = 5


\* C26: when the connect of an orchestrator flow has failed because an init
\* command ran out of attempts, the flow has run the soft initialization
\* before it gives the connection up: by the time it closes the device the
\* last write handed to the transport is the soft sequence's 0x00, or the
\* 0x04 0x00 that follows it.
C26_SoftInitBeforeGivingUp ==
  (/\ mode \in {"handleUSB", "execComm"}
   /\ fpc \in {"h_close", "e_catch"}
   /\ op = "connect" /\ ret = "throw" /\ exhausted # -1)
    => lastData \in {<<WAKE_UP>>, TEST_COMMAND}
(***************************************************************************)
(* Claims about the native sendTextCommand.                                *)
(***************************************************************************)
\* C27: when sendTextCommand has used up its reads without CMD OK or
\* CMD Fail! appearing in the accumulated text, the query fails: the call
\* hands back no text, and neither parser takes what it handed back for an
\* answer.
C27_NoMarkerNoResponse ==
  (mode = "send" /\ spc = "done" /\ ~HasMarker(sendResponse)) =>
    /\ finalResponse = <<>>
    /\ parseTextResponse(finalResponse) = NullText
    /\ App_parseTextResponse(finalResponse) = NullText

\* the read loop of sendTextCommand is bounded and ends at the marker
SendReadsBounded ==
  /\ sendReads <= Native_maxAttempts
  /\ sendAttempts <= sendReads
  /\ (sendWritten = <<>> \/ sendWritten[1] < 0) => sendReads = 0
  /\ (spc = "done" /\ sendReads > 0 /\ sendReads < Native_maxAttempts)
       => HasMarker(finalResponse)

\* C28: sendTextCommand reads at most 50 times after its write, makes no
\* read once the accumulated text contains CMD OK or CMD Fail!, makes no
\* read at all when the write returned a negative count, and returns in
\* every run.
C28_ReadLoopBoundedAndEnds ==
  /\ []SendReadsBounded
  /\ [][sendReads' # sendReads => ~HasMarker(sendResponse)]_vars
  /\ <>(spc = "done")

C28_Witness ==
  /\ mode = "send" /\ spc = "done"
  /\ sendReads = Native_maxAttempts
  /\ sendAttempts = Native_maxAttempts - 1
  /\ sendChunks = 2
  /\ HasMarker(finalResponse)

\* C29: the bytes handed to the write are the bytes of the command followed
\* by one CR LF: the terminator is appended to a command that does not end
\* with it and is not appended to one that does.
C29_OneTerminator ==
  (mode = "send" /\ sendWritten # <<>>) =>
    LET body == IF endsWithCRLF(sendCommand)
                THEN SubSeq(sendCommand, 1, Len(sendCommand) - 2)
                ELSE sendCommand
    IN
    /\ sendBytes = AsciiEncode(body) \o CRLF
    /\ sendWritten[1] >= 0 => sendWritten[1] = Len(body) + 2

C29_Witness ==
  /\ mode = "send" /\ spc = "done"
  /\ sendCommand = STR_TIME \o CRLF
  /\ sendBytes = sendCommand
  /\ sendWritten = <<Len(sendCommand)>>
  /\ HasMarker(finalResponse)

(***************************************************************************)
(* Claims about the time check of getDeviceInfo.                           *)
(***************************************************************************)
\* the text commands getDeviceInfo sends, in order
InfoQueries == <<"$serlnum?", "$date?", "$time?">>

\* C30: the syncResult of verifyTimeSync has needsSync exactly when the host
\* clock and the device time lie more than five minutes apart, five minutes
\* exactly not being flagged (and an unreadable device time is not flagged);
\* and getDeviceInfo writes nothing to the device but its three queries: no
\* frame goes through writeData and no text command sets a date or a time.
C30_TimeSyncAdvisory ==
  /\ timeSync # NoSync =>
       /\ op = "getDeviceInfo" /\ ret = "ok"
       /\ IF timeSync.deviceTime = NaN
          THEN ~timeSync.needsSync
          ELSE LET device == timeSync.deviceTime[1]
                   host == timeSync.currentTime
               IN timeSync.needsSync <=>
                    (host > device + SYNC_MINUTES * MS_PER_MINUTE
                       \/ host < device - SYNC_MINUTES * MS_PER_MINUTE)
  /\ op = "getDeviceInfo" =>
       /\ Len(textCmds) <= Len(InfoQueries)
       /\ textCmds = SubSeq(InfoQueries, 1, Len(textCmds))
       /\ initWrites = 0
       /\ lastData = <<>> /\ lastWire = <<>>

C30_Witness ==
  /\ op = "getDeviceInfo" /\ dpc = "done" /\ ret = "ok"
  /\ textCmds = InfoQueries
  /\ timeSync # NoSync
  /\ timeSync.deviceTime = Num(DEVICE_MS)
  /\ timeSync.currentTime = DEVICE_MS + SYNC_MINUTES * MS_PER_MINUTE
  /\ ~timeSync.needsSync
(***************************************************************************)
(* Claims about the driver's session.                                      *)
(***************************************************************************)
\* the last progress step of each call: connect 4, getDeviceInfo 3,
\* fetchData 2
LastStep == IF op = "connect" THEN 4 ELSE IF op = "getDeviceInfo" THEN 3 ELSE 2

\* C31: a progress callback that throws does not change how a call ends.
\* Checked where the outcome with a quiet callback is known: when the
\* callback throws at the call's last step, every transport step having
\* succeeded, connect returns with isConnected set, getDeviceInfo returns
\* with its time check made, and fetchData returns its records.
C31_CallbackNeverAborts ==
  (dpc = "done" /\ cbThrewAt # 0 /\ cbThrewAt = LastStep) =>
    /\ ret = "ok"
    /\ op = "connect" => isConnected
    /\ op = "getDeviceInfo" => timeSync # NoSync
    /\ op = "fetchData" => records >= 0

\* C32: a native writeData that fails (no active connection, or a transfer
\* that times out or errs) returns a negative count, a readData that fails
\* returns an empty list, and such a call leaves the active connections and
\* the claimed interfaces as they were.
C32_FailuresAreValues ==
  [][ /\ (nativeReturn'.call = "writeData" /\ nativeReturn'.failed) =>
           /\ nativeReturn'.count < 0
           /\ activeConnections' = activeConnections
           /\ claimedInterfaces' = claimedInterfaces
      /\ (nativeReturn'.call = "readData" /\ nativeReturn'.failed) =>
           /\ nativeReturn'.bytes = <<>>
           /\ activeConnections' = activeConnections
           /\ claimedInterfaces' = claimedInterfaces ]_vars

\* C33: within the driver's connect, handshake and query operations no
\* transport call is started while an earlier one is still in flight: at
\* most one call is in flight, and a call is issued only when none is.
C33_Sequential ==
  /\ [](Len(inFlight) <= 1)
  /\ [][Len(inFlight') > Len(inFlight) => inFlight = <<>>]_vars

\* a read of the handshake is in flight, alone, after the writes before it
C33_Witness ==
  /\ op = "connect" /\ dpc = "initRead" /\ i = 2
  /\ inFlight = <<"readData">> /\ promise = "pending"

\* positions of connect inside the handshake and at the test write
HandshakeSteps == {"i_wake_w", "i_wake_r", "i_cmd_w", "i_cmd_r"}

\* the open and the claim of the connect in progress succeeded
OpenedAndClaimed == connectOpened /\ activeConnections # 0 /\ alreadyClaimed

C35_InitializedOnlyWhileOpen ==
  /\ isInitialized => activeConnections # 0
  /\ (op = "disconnect" /\ dpc = "done" /\ ret = "ok") => ~isInitialized
  /\ (op = "connect" /\ dpc = "done" /\ exhausted # -1) => ~isInitialized

\* C36: no native connection is leaked: at most one UsbDeviceConnection of
\* the device is opened and not closed, whatever the sequence of openDevice
\* and closeDevice calls, openDevice on a device already open included.
C36_NoLeakedConnection == Cardinality(liveConns) <= 1

\* C37: after any sequence of native calls the device has an active
\* connection exactly when it has a claimed-interface list, and closeDevice
\* without an active connection returns false and changes neither map.
C37_MapsAgree ==
  /\ []((activeConnections # 0) <=> (claimedInterfaces # NoList))
  /\ [][ (nativeReturn'.call = "closeDevice" /\ activeConnections = 0) =>
           /\ nativeReturn'.ok = FALSE
           /\ activeConnections' = activeConnections
           /\ claimedInterfaces' = claimedInterfaces ]_vars

\* closeDevice was called on a device without active connection, after
\* the device had been opened twice
C37_Witness ==
  /\ nativeReturn = [call |-> "closeDevice", ok |-> FALSE]
  /\ activeConnections = 0 /\ claimedInterfaces = NoList
  /\ opens >= 2

\* C38: the view model hands a permission request for the device to
\* usbManager only when no earlier request of its own is unanswered.
C38_OneRequestAtATime ==
  [][unanswered' > unanswered => unanswered = 0]_vars

\* C39: the module's requestPermission resolves true only when the device
\* holds the permission at that moment, so the flow that passed its
\* permission step calls openDevice on a device that has permission.
C39_TrueMeansPermission ==
  /\ [](hpc = "open" => hasPermission)
  /\ [][(hpc = "permission" /\ permissionGranted' = "true") => hasPermission]_vars

\* most writeData calls of one initCommunication: the wake-up and three per
\* init command
MaxInitWrites == 1 + maxAttempts * Len(INIT_SEQUENCE)

\* most readData calls of one initCommunication: the wake-up read and one
\* per init command but the ACK
MaxInitReads == 1 + (Len(INIT_SEQUENCE) - 1)

\* initCommunication has ended: the protocol is initialized, or the call
\* has thrown and the protocol is not initialized
InitEnded ==
  \/ dpc = "c_verify" /\ isInitialized
  \/ dpc = "done" /\ ret = "throw" /\ ~isInitialized

\* C40: every transport call returning, initCommunication ends, initialized
\* or failed, after at most 16 writes and at most 5 reads.
C40_HandshakeTerminates ==
  /\ [](initWrites <= 16 /\ initWrites <= MaxInitWrites)
  /\ [](initReads <= 5 /\ initReads <= MaxInitReads)
  /\ (op = "connect" /\ dpc = "i_wake_w") ~> InitEnded

\* a handshake that took all its writes and reads and initialized
C40_Witness ==
  /\ dpc = "c_verify" /\ isInitialized
  /\ initWrites = 16 /\ initReads = 5

====
